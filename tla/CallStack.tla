----------------------------- MODULE CallStack -----------------------------
(* What OPCODE.md promises of call, met and ret, and no more: a call opens   *)
(* an empty frame; the new frame first takes its arguments from the frame    *)
(* under it; it then works on its own stack and arguments only; it ends with *)
(* the one value on its stack, which the frame under it receives, or with    *)
(* none. A frame that is neither the innermost nor the one under it never    *)
(* changes. The Interpreter is shown to implement this.                      *)
EXTENDS Integers, Sequences

VARIABLE frames   \* innermost last: [phase, stack, args]

NewFrame == [phase |-> "fresh", stack |-> << >>, args |-> << >>]

Last    == Len(frames)
Front   == SubSeq(frames, 1, Last - 1)
Working == Last > 0 /\ frames[Last].phase = "working"

Init == frames = << >>

\* The host opens the first frame.
Start == frames = << >> /\ frames' = <<NewFrame>>

Call == Working /\ frames' = Append(frames, NewFrame)

\* The arguments come off the caller's stack, its top being the first.
TakeArgs ==
    /\ Last > 1 /\ frames[Last].phase = "fresh"
    /\ LET from == frames[Last - 1].stack
       IN  \E n \in 0..Len(from) :
            frames' = [frames EXCEPT
                ![Last - 1].stack = SubSeq(from, 1, Len(from) - n),
                ![Last] = [NewFrame EXCEPT !.phase = "working",
                              !.args = IF n = 0 THEN << >>
                                       ELSE [i \in 0..(n - 1) |-> from[Len(from) - i]]]]

\* A function the host calls is handed no arguments.
NoArgs ==
    /\ Last = 1 /\ frames[1].phase = "fresh"
    /\ frames' = <<[NewFrame EXCEPT !.phase = "working"]>>

\* The innermost frame computes, alone.
Work ==
    /\ Working
    /\ Len(frames') = Last /\ frames'[Last].phase = "working"
    /\ \A i \in 1..(Last - 1) : frames'[i] = frames[i]

Return ==
    /\ Working /\ Last > 1 /\ Len(frames[Last].stack) = 1
    /\ frames' = [Front EXCEPT ![Last - 1].stack = Append(@, frames[Last].stack[1])]

Leave == Working /\ frames' = Front

Next == Start \/ Call \/ TakeArgs \/ NoArgs \/ Work \/ Return \/ Leave

Spec == Init /\ [][Next]_frames

=============================================================================
