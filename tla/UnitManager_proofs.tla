------------------------- MODULE UnitManager_proofs -------------------------
(* Theorems about the unit manager, for all names, paths, files and bounds.  *)
EXTENDS UnitManager, TLAPS

\* What the files were is remembered: a file that would be refused makes its
\* name a suspect.
FilesSuspected ==
    \A p \in Paths, n \in Units : files[p][n].magic \in {"SNL", "none"} \/ n \in suspects

\* A null pointer in the table is what is left of a refused file.
NullsSuspected == \A n \in DOMAIN units : units[n] = nullptr => n \in suspects

IInv ==
    /\ files \in [Paths -> [Units -> File]]
    /\ writes \in Nat
    /\ directories \subseteq Paths
    /\ search_paths \in Seq(Paths)
    /\ FilesSuspected
    /\ NullsSuspected
    /\ EntriesMatchBytes
    /\ SilentOnlyIfSuspect

-----------------------------------------------------------------------------
(* The steps                                                                 *)

LEMMA InitHolds == Init => IInv
<1> SUFFICES ASSUME Init PROVE IInv
    OBVIOUS
<1>1. files \in [Paths -> [Units -> File]] /\ FilesSuspected
    BY DEF Init, File, Absent, FilesSuspected
<1>2. search_paths \in Seq(Paths)
    BY UnitManagerAssumption DEF Init
<1>3. \A n \in DOMAIN units : units[n] = external
    BY DEF Init
<1>4. NullsSuspected /\ EntriesMatchBytes
    BY <1>3 DEF NullsSuspected, EntriesMatchBytes, external, nullptr
<1>5. SilentOnlyIfSuspect
    BY DEF Init, SilentOnlyIfSuspect
<1> QED BY <1>1, <1>2, <1>4, <1>5 DEF Init, IInv

\* A step that only adds to the table a unit that is not read from a file,
\* null only for a suspect.
LEMMA TableStep ==
    ASSUME IInv, NEW n \in Units, NEW unit, unit.kind # "interpreted",
           unit = nullptr => n \in suspects,
           units' = Emplace(units, n, unit), UNCHANGED <<outside, unit_buffer_map, search_paths>>,
           SilentOnlyIfSuspect'
    PROVE  IInv'
<1>0. /\ DOMAIN units' = DOMAIN units \cup {n}
      /\ \A m \in DOMAIN units : units'[m] = units[m]
      /\ n \notin DOMAIN units => units'[n] = unit
    BY DEF Emplace
<1>1. NullsSuspected'
    BY <1>0 DEF NullsSuspected, IInv, outside
<1>2. EntriesMatchBytes'
    BY <1>0 DEF EntriesMatchBytes, IInv
<1>3. FilesSuspected'
    BY DEF FilesSuspected, IInv, outside
<1> QED BY <1>1, <1>2, <1>3 DEF IInv, outside

\* A step that leaves the table alone.
LEMMA IdleStep ==
    ASSUME IInv, UNCHANGED <<outside, units, unit_buffer_map>>,
           search_paths' \in Seq(Paths), SilentOnlyIfSuspect'
    PROVE  IInv'
<1>1. NullsSuspected' /\ EntriesMatchBytes' /\ FilesSuspected'
    BY DEF NullsSuspected, EntriesMatchBytes, FilesSuspected, IInv, outside
<1> QED BY <1>1 DEF IInv, outside

LEMMA UseKnownStep == ASSUME IInv, NEW n \in Units, UseKnown(n) PROVE IInv'
<1>1. SilentOnlyIfSuspect'
    BY DEF UseKnown, Answers, Cached, SilentOnlyIfSuspect, IInv, NullsSuspected, outside
<1> QED BY <1>1, IdleStep DEF UseKnown, manager, IInv

LEMMA NotFoundStep == ASSUME IInv, NEW n \in Units, NotFound(n) PROVE IInv'
<1>1. SilentOnlyIfSuspect'
    BY DEF NotFound, Answers, SilentOnlyIfSuspect
<1> QED BY <1>1, IdleStep DEF NotFound, AfterMiss, IInv

\* What a search that ends at a file finds in it.
LEMMA Found ==
    ASSUME IInv, NEW n \in Units, NEW i \in DOMAIN search_paths
    PROVE  /\ Entry(i, n) \in File
           /\ Entry(i, n).magic \in {"SNL", "none"} \/ n \in suspects
<1>1. search_paths[i] \in Paths
    BY DEF IInv
<1> QED BY <1>1 DEF Entry, IInv, FilesSuspected

LEMMA LoadStep ==
    ASSUME IInv, NEW n \in Units, NEW file \in File, ~Cached(n), Load(n, file)
    PROVE  IInv'
<1>1. CASE file.magic = "short"
    <2>1. SilentOnlyIfSuspect'
        BY <1>1 DEF Load, SilentOnlyIfSuspect, IInv, outside
    <2> QED BY <1>1, <2>1, IdleStep DEF Load, manager, IInv
<1>2. CASE file.magic # "short"
    <2>1. /\ units' = Emplace(units, n, interpreted(file.bytes))
          /\ unit_buffer_map' = [m \in DOMAIN unit_buffer_map \cup {n} |->
                                    IF m = n THEN file.bytes ELSE unit_buffer_map[m]]
          /\ Answers("returned", n, units'[n])
          /\ UNCHANGED <<outside, search_paths>>
        BY <1>2 DEF Load
    <2>2. /\ DOMAIN units' = DOMAIN units \cup {n}
          /\ \A m \in DOMAIN units : units'[m] = units[m] /\ m # n
          /\ units'[n] = interpreted(file.bytes)
        BY <2>1 DEF Emplace, Cached
    <2>3. units'[n].kind = "interpreted" /\ units'[n].entries = file.bytes /\ units'[n] # nullptr
        BY <2>2 DEF interpreted, nullptr
    <2>4. EntriesMatchBytes'
        BY <2>1, <2>2, <2>3 DEF EntriesMatchBytes, IInv
    <2>5. NullsSuspected' /\ FilesSuspected'
        BY <2>1, <2>2, <2>3 DEF NullsSuspected, FilesSuspected, IInv, outside
    <2>6. SilentOnlyIfSuspect'
        BY <2>1, <2>3 DEF SilentOnlyIfSuspect, Answers
    <2> QED BY <2>1, <2>4, <2>5, <2>6 DEF IInv, outside
<1> QED BY <1>1, <1>2

LEMMA RefuseStep ==
    ASSUME IInv, NEW n \in Units, NEW file, file.magic \in {"SNL", "none"} \/ n \in suspects,
           file # Absent, file \in File, Refuse(n, file), ~Cached(n)
    PROVE  IInv'
<1>1. file.magic # "none"
    BY DEF File, Magics, Absent
<1>2. file.magic # "SNL"
    BY DEF Refuse, Recognised
<1>3. n \in suspects
    BY <1>1, <1>2
<1>4. SilentOnlyIfSuspect'
    BY <1>3 DEF Refuse, Answers, SilentOnlyIfSuspect, outside
<1> QED BY <1>3, <1>4, TableStep DEF Refuse, nullptr

LEMMA UseFileStep ==
    ASSUME IInv, NEW n \in Units, NEW i \in DOMAIN search_paths, UseFile(n, i)
    PROVE  IInv'
<1>1. CASE NotListed(n)
    <2>1. SilentOnlyIfSuspect'
        BY <1>1 DEF NotListed, Answers, SilentOnlyIfSuspect
    <2> QED BY <1>1, <2>1, IdleStep DEF NotListed, manager, IInv
<1>2. CASE Listed(i) /\ Load(n, Entry(i, n))
    BY <1>2, Found, LoadStep DEF UseFile
<1>3. CASE Listed(i) /\ Refuse(n, Entry(i, n))
    BY <1>3, Found, RefuseStep DEF UseFile, EndsAt, Ends
<1>4. CASE Listed(i) /\ NotOpened(n, Entry(i, n))
    <2>1. SilentOnlyIfSuspect'
        BY <1>4 DEF NotOpened, SilentOnlyIfSuspect, IInv, outside
    <2> QED BY <1>4, <2>1, IdleStep DEF NotOpened, manager, IInv
<1> QED BY <1>1, <1>2, <1>3, <1>4 DEF UseFile

LEMMA AddExternalUnitStep == ASSUME IInv, NEW n \in Units, AddExternalUnit(n) PROVE IInv'
<1>1. SilentOnlyIfSuspect'
    BY DEF AddExternalUnit, SilentOnlyIfSuspect, IInv, outside
<1> QED BY <1>1, TableStep DEF AddExternalUnit, external, nullptr

LEMMA AddSearchPathStep == ASSUME IInv, NEW p \in Paths, AddSearchPath(p) PROVE IInv'
<1>1. SilentOnlyIfSuspect'
    BY DEF AddSearchPath, SilentOnlyIfSuspect, IInv, outside
<1>2. search_paths' \in Seq(Paths)
    BY DEF AddSearchPath, IInv
<1> QED BY <1>1, <1>2, IdleStep DEF AddSearchPath

LEMMA ChangeStep ==
    ASSUME IInv, NEW p \in Paths, NEW n \in Units, NEW file \in Contents, Change(p, n, file)
    PROVE  IInv'
<1>1. file \in File
    BY DEF Contents, File, Magics, IInv
<1>2. files' \in [Paths -> [Units -> File]]
    BY <1>1 DEF Change, IInv
<1>3. suspects \subseteq suspects'
    BY DEF Change
<1>4. file.magic \in {"SNL", "none"} \/ n \in suspects'
    BY DEF Change
<1>5. FilesSuspected'
    <2> SUFFICES ASSUME NEW q \in Paths, NEW m \in Units
                 PROVE  files'[q][m].magic \in {"SNL", "none"} \/ m \in suspects'
        BY DEF FilesSuspected
    <2>1. files'[q][m] = IF q = p /\ m = n THEN file ELSE files[q][m]
        BY DEF Change, IInv
    <2> QED BY <2>1, <1>3, <1>4 DEF FilesSuspected, IInv
<1>6. NullsSuspected' /\ EntriesMatchBytes' /\ SilentOnlyIfSuspect'
    BY <1>3 DEF Change, manager, NullsSuspected, EntriesMatchBytes, SilentOnlyIfSuspect, IInv
<1> QED BY <1>2, <1>5, <1>6 DEF IInv, Change, manager

LEMMA NextStep == IInv /\ [Next]_vars => IInv'
<1> SUFFICES ASSUME IInv, [Next]_vars PROVE IInv'
    OBVIOUS
<1>1. ASSUME NEW n \in Units, UseUnit(n) PROVE IInv'
    BY <1>1, UseKnownStep, NotFoundStep, UseFileStep DEF UseUnit
<1>2. ASSUME NEW n \in Units, AddExternalUnit(n) PROVE IInv'
    BY <1>2, AddExternalUnitStep
<1>3. ASSUME NEW p \in Paths, AddSearchPath(p) PROVE IInv'
    BY <1>3, AddSearchPathStep
<1>4. ASSUME NEW p \in directories, NEW n \in Units, NEW file \in Contents, Change(p, n, file)
      PROVE  IInv'
    BY <1>4, ChangeStep DEF IInv
<1>5. CASE UNCHANGED vars
    BY <1>5 DEF vars, outside, manager, IInv, FilesSuspected, NullsSuspected, EntriesMatchBytes,
                SilentOnlyIfSuspect
<1> QED BY <1>1, <1>2, <1>3, <1>4, <1>5 DEF Next

THEOREM Invariance == Spec => []IInv
BY InitHolds, NextStep, PTL DEF Spec

-----------------------------------------------------------------------------
(* What follows                                                              *)

\* The bytes behind a loaded unit are those its functions were found in,
\* however files, paths and registrations change.
THEOREM BytesOfUnits == Spec => []EntriesMatchBytes
<1>1. IInv => EntriesMatchBytes
    BY DEF IInv
<1> QED BY <1>1, Invariance, PTL

\* A silent failure is always due to a file that was refused.
THEOREM SilentFailures == Spec => []SilentOnlyIfSuspect
<1>1. IInv => SilentOnlyIfSuspect
    BY DEF IInv
<1> QED BY <1>1, Invariance, PTL

\* No step of the manager, the host or the file system binds a name again.
LEMMA NamesStay ==
    ASSUME [Next]_vars PROVE UnitsKept
<1>1. ASSUME NEW n, NEW unit, units' = Emplace(units, n, unit) PROVE UnitsKept
    BY <1>1 DEF Emplace, UnitsKept
<1>2. ASSUME UNCHANGED units PROVE UnitsKept
    BY <1>2 DEF UnitsKept
<1>3. ASSUME NEW n \in Units, UseUnit(n) PROVE UnitsKept
    <2>1. CASE UseKnown(n)
        BY <1>2, <2>1 DEF UseKnown, manager
    <2>2. CASE NotFound(n)
        BY <1>2, <2>2 DEF NotFound, AfterMiss
    <2>3. ASSUME NEW file, Load(n, file) PROVE UnitsKept
        BY <1>1, <1>2, <2>3 DEF Load, manager
    <2>4. ASSUME NEW file, Refuse(n, file) PROVE UnitsKept
        BY <1>1, <2>4 DEF Refuse
    <2>5. ASSUME NEW file, NotOpened(n, file) \/ NotListed(n) PROVE UnitsKept
        BY <1>2, <2>5 DEF NotOpened, NotListed, manager
    <2>6. ASSUME NEW i \in DOMAIN search_paths, UseFile(n, i) PROVE UnitsKept
        BY <2>3, <2>4, <2>5, <2>6 DEF UseFile
    <2> QED BY <1>3, <2>1, <2>2, <2>6 DEF UseUnit
<1>4. ASSUME NEW n \in Units, AddExternalUnit(n) PROVE UnitsKept
    BY <1>1, <1>4 DEF AddExternalUnit
<1>5. ASSUME NEW p \in Paths, AddSearchPath(p) PROVE UnitsKept
    BY <1>2, <1>5 DEF AddSearchPath
<1>6. ASSUME NEW p, NEW n, NEW file, Change(p, n, file) PROVE UnitsKept
    BY <1>2, <1>6 DEF Change, manager
<1>7. CASE UNCHANGED vars
    BY <1>2, <1>7 DEF vars, manager
<1> QED BY <1>3, <1>4, <1>5, <1>6, <1>7 DEF Next

\* A name means one unit in every behaviour: what the interpreter's model
\* takes for granted when it reads the units of a program as a constant.
THEOREM UnitsStay == Spec => OneUnitForever
<1>1. [Next]_vars => [UnitsKept]_vars
    BY NamesStay
<1> QED BY <1>1, PTL DEF Spec, OneUnitForever

=============================================================================
