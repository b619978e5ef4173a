-------------------------- MODULE LeaseIndexProofs --------------------------
(***************************************************************************)
(* On a coalescing store the lease index never loses a member that no scan *)
(* will find again: RepairAhead, for any leases, page sizes and number of  *)
(* restarts and rollbacks.                                                 *)
(***************************************************************************)
EXTENDS LeaseIndex, FiniteSetTheorems, TLAPS

-----------------------------------------------------------------------------
(* Types *)

\* A scan has a cursor, and so has the page it reads.
CursorInv ==
    /\ pass.pc = "scan" => pass.state.scan # None
    /\ pass.pc = "add" => pass.cursor # None

\* A new runtime's state has its type.
LEMMA RenewedType ==
    ASSUME NEW s \in States, generation \in Nat
    PROVE  Renewed(s) \in States
<1> DEFINE new == s.generation # generation
           audit == s.complete /\ (new \/ (s.scan = None /\ ~s.auditWait))
           scan == IF (new /\ ~s.complete) \/ audit THEN 0 ELSE s.scan
<1>1. Renewed(s) = [s EXCEPT !.generation = generation, !.scan = scan]
  BY DEF Renewed, States
<1>2. scan \in Cursors /\ (s.complete \/ scan # None)
  BY DEF States, Cursors, None
<1> HIDE DEF scan
<1> QED BY <1>1, <1>2 DEF States

\* The state after a page of the scan has its type.
LEMMA ScannedType ==
    ASSUME NEW s \in States, NEW c \in Cursors, c # None, NEW last \in BOOLEAN
    PROVE  Scanned(s, c, last) \in States
BY DEF Scanned, States, Cursors, None

\* The state after a page of the sweep has its type.
LEMMA SweptType ==
    ASSUME NEW s \in States, NEW c \in Cursors, NEW last \in BOOLEAN
    PROVE  Swept(s, c, last) \in States
BY DEF Swept, States, Cursors, None

\* Whether a page is short of the page size is a Boolean.
LEMMA ShortType ==
    ASSUME NEW p \in SUBSET Leases
    PROVE  (Cardinality(p) < PageSize) \in BOOLEAN
<1>1. IsFiniteSet(p)
  BY FS_Subset, IndexAssumption
<1>2. Cardinality(p) \in Nat
  BY <1>1, FS_CardinalityType
<1> QED BY <1>2, PageAssumption

\* A pass that is not running has its type.
LEMMA IdleType == Idle \in Passes /\ NoState \in States /\ Idle.pc = "idle"
BY PageAssumption DEF Idle, Passes, NoState, States, Cursors, None

\* The fields of a pass.
LEMMA PassFields ==
    ASSUME NEW p \in Passes
    PROVE  /\ p.pc \in {"idle", "scan", "add", "sweep", "prune", "recheck", "save"}
           /\ p.state \in States /\ p.todo \in SUBSET Leases
           /\ p.cursor \in Cursors /\ p.last \in BOOLEAN
           /\ p.pages \in 0 .. PagesPerPass - 1
BY DEF Passes

\* Every step keeps the variables in their types, and the cursors defined.
LEMMA TypeStep == TypeOK /\ CursorInv /\ [Next]_vars => TypeOK' /\ CursorInv'
<1> SUFFICES ASSUME TypeOK, CursorInv, [Next]_vars PROVE TypeOK' /\ CursorInv'
  OBVIOUS
<1>0. pass \in Passes /\ stored \in States /\ generation \in Nat
  BY DEF TypeOK
<1>1. CASE UNCHANGED vars
  BY <1>1 DEF TypeOK, CursorInv, vars
<1>2. ASSUME NEW l \in Leases, Writers(l) \/ FinishWrite(l)
      PROVE  TypeOK' /\ CursorInv'
  BY <1>2 DEF Writers, FinishWrite, WriteAtomic, PublishEntry, PublishLease,
              RetractLease, RetractEntry, FailWrite, OldWrite, TypeOK, CursorInv
<1>3. CASE StartPass
  <2>1. Renewed(stored) \in States
    BY <1>0, RenewedType
  <2>2. /\ pass' \in Passes /\ pass'.pc \in {"sweep", "scan"}
        /\ pass'.pc = "scan" => pass'.state.scan # None
    BY <1>3, <2>1, IdleType, PassFields DEF StartPass, Passes, Idle
  <2> QED BY <1>3, <2>2 DEF StartPass, TypeOK, CursorInv
<1>4. CASE ReadPage
  <2>1. PICK p \in SUBSET Leases, end \in Cursors :
          /\ PageEnd(p, pass.state.scan, end)
          /\ pass' = [pass EXCEPT !.pc = "add",
                                  !.todo = {l \in p : rec[l] = "member"},
                                  !.cursor = end,
                                  !.last = Cardinality(p) < PageSize]
    BY <1>4 DEF ReadPage
  <2>2. {l \in p : rec[l] = "member"} \in SUBSET Leases
    OBVIOUS
  <2>3. pass.state.scan # None
    BY <1>4 DEF ReadPage, CursorInv
  <2>4. end # None
    BY <2>1, <2>3, IndexAssumption DEF PageEnd, None
  <2>5. (Cardinality(p) < PageSize) \in BOOLEAN
    BY ShortType
  <2> DEFINE short == Cardinality(p) < PageSize
             todo == {l \in p : rec[l] = "member"}
  <2>6. pass' \in Passes /\ pass'.pc = "add" /\ pass'.cursor = end
    <3>1. pass' = [pass EXCEPT !.pc = "add", !.todo = todo, !.cursor = end,
                               !.last = short]
      BY <2>1
    <3>2. short \in BOOLEAN /\ todo \in SUBSET Leases
      BY <2>2, <2>5
    <3> HIDE DEF short, todo
    <3> QED BY <1>0, <3>1, <3>2 DEF Passes
  <2> QED BY <1>4, <2>4, <2>6 DEF ReadPage, TypeOK, CursorInv
<1>5. ASSUME NEW l \in Leases, AddMember(l) \/ VisitEntry(l) \/ RecheckEntry(l)
      PROVE  TypeOK' /\ CursorInv'
  <2>1. /\ pass' \in Passes /\ pass'.cursor = pass.cursor
        /\ pass'.pc = "add" => pass.pc = "add"
        /\ pass'.pc # "scan"
    BY <1>0, <1>5 DEF AddMember, VisitEntry, RecheckEntry, Passes
  <2> QED BY <1>5, <2>1
          DEF AddMember, VisitEntry, RecheckEntry, Pruned, TypeOK, CursorInv
<1>6. CASE EndPage
  <2>1. pass.cursor # None /\ pass.cursor \in Cursors /\ pass.last \in BOOLEAN
    BY <1>0, <1>6, PassFields DEF EndPage, CursorInv
  <2>2. Scanned(pass.state, pass.cursor, pass.last) \in States
    BY <1>0, <2>1, PassFields, ScannedType
  <2> DEFINE stop == pass.last \/ pass.pages + 1 = PagesPerPass
             s == Scanned(pass.state, pass.cursor, pass.last)
             pc == IF stop THEN "sweep" ELSE "scan"
             n == IF stop THEN 0 ELSE pass.pages + 1
  <2>5. n \in 0 .. PagesPerPass - 1
    BY <1>0, PassFields, PageAssumption
  <2>3. /\ pass' \in Passes /\ pass'.pc \in {"sweep", "scan"}
        /\ pass'.pc = "scan" => ~pass.last
        /\ pass'.state = s
    <3>1. pass' = [pass EXCEPT !.state = s, !.pages = n, !.pc = pc]
      BY <1>6 DEF EndPage
    <3>2. pc = "scan" => ~pass.last
      OBVIOUS
    <3>3. pc \in {"sweep", "scan"}
      OBVIOUS
    <3>4. s \in States
      BY <2>2
    <3> HIDE DEF pc, n, s
    <3> QED BY <1>0, <2>5, <3>1, <3>2, <3>3, <3>4 DEF Passes
  <2>4. pass'.pc = "scan" => pass'.state.scan # None
    BY <1>0, <2>1, <2>3, PassFields DEF Scanned, States
  <2> QED BY <1>6, <2>2, <2>3, <2>4 DEF EndPage, TypeOK, CursorInv
<1>7. CASE SkipSweep
  BY <1>0, <1>7 DEF SkipSweep, TypeOK, CursorInv, Passes
<1>8. CASE ReadEntries
  <2>1. PICK p \in SUBSET Leases, end \in Cursors :
          pass' = [pass EXCEPT !.pc = "prune", !.todo = p, !.cursor = end,
                               !.last = Cardinality(p) < PageSize]
    BY <1>8 DEF ReadEntries
  <2>2. (Cardinality(p) < PageSize) \in BOOLEAN
    BY ShortType
  <2> DEFINE short == Cardinality(p) < PageSize
  <2>3. pass' \in Passes /\ pass'.pc = "prune"
    <3>1. pass' = [pass EXCEPT !.pc = "prune", !.todo = p, !.cursor = end,
                               !.last = short]
      BY <2>1
    <3>2. short \in BOOLEAN
      BY <2>2
    <3> HIDE DEF short
    <3> QED BY <1>0, <3>1, <3>2 DEF Passes
  <2> QED BY <1>8, <2>3 DEF ReadEntries, TypeOK, CursorInv
<1>9. CASE EndSweepPage
  <2>1. Swept(pass.state, pass.cursor, pass.last) \in States
    BY <1>0, PassFields, SweptType
  <2> DEFINE stop == pass.pages + 1 = PagesPerPass
             s == Swept(pass.state, pass.cursor, pass.last)
             pc == IF pass.last \/ stop THEN "save" ELSE "sweep"
             n == IF stop THEN 0 ELSE pass.pages + 1
  <2>5. n \in 0 .. PagesPerPass - 1
    BY <1>0, PassFields, PageAssumption
  <2>2. pass' \in Passes /\ pass'.pc \in {"save", "sweep"}
    <3>1. pass' = [pass EXCEPT !.state = s, !.pages = n, !.pc = pc]
      BY <1>9 DEF EndSweepPage
    <3>2. pc \in {"save", "sweep"}
      OBVIOUS
    <3>3. s \in States
      BY <2>1
    <3> HIDE DEF pc, n, s
    <3> QED BY <1>0, <2>5, <3>1, <3>2, <3>3 DEF Passes
  <2> QED BY <1>9, <2>2 DEF EndSweepPage, TypeOK, CursorInv
<1>10. CASE SavePass
  BY <1>0, <1>10, IdleType, PassFields DEF SavePass, TypeOK, CursorInv
<1>11. CASE FailPass
  BY <1>11, IdleType DEF FailPass, TypeOK, CursorInv
<1>12. CASE Elapse
  BY <1>0, <1>12 DEF Elapse, TypeOK, CursorInv, States
<1>13. ASSUME NEW c \in Codes, Deploy(c) PROVE TypeOK' /\ CursorInv'
  BY <1>13, IdleType, IndexAssumption DEF Deploy, TypeOK, CursorInv
<1> QED BY <1>1, <1>2, <1>3, <1>4, <1>5, <1>6, <1>7, <1>8, <1>9, <1>10, <1>11,
           <1>12, <1>13 DEF Next, Maintenance

\* Every record keeps its shape: in particular a backfill that is not complete
\* always has the cursor it continues from.
THEOREM IndexTypeCorrect == Spec => [](TypeOK /\ CursorInv)
<1>1. Init => TypeOK /\ CursorInv
  BY IdleType, IndexAssumption DEF Init, TypeOK, CursorInv
<1> QED BY <1>1, TypeStep, PTL DEF Spec

-----------------------------------------------------------------------------
(* Repair *)

\* Whose state is whose: a stored generation is never of a later runtime, old
\* code neither maintains nor resumes, and a pass works for the runtime it is of.
GenerationInv ==
    /\ stored.generation <= generation
    /\ code = "old" => stored.generation # generation /\ pass.pc = "idle"
    /\ pass.pc # "idle" => pass.state.generation = generation

\* The pass has every missing member before it: in the page it is adding, or
\* beyond its cursor.
PassAhead ==
    \A l \in Missing :
      /\ pass.pc \notin {"idle", "add"} =>
           pass.state.scan # None /\ pass.state.scan < l
      /\ pass.pc = "add" =>
           l \in pass.todo \/ (~pass.last /\ pass.cursor < l)

RepairInv ==
    /\ \A l \in Leases : write[l] = "none"
    /\ GenerationInv
    /\ RepairAhead
    /\ PassAhead

\* A step that leaves the scans alone and makes no member missing keeps them
\* ahead of what is missing.
LEMMA RepairKeep ==
    ASSUME RepairInv, Missing' \subseteq Missing,
           UNCHANGED <<write, code, generation, stored, pass>>
    PROVE  RepairInv'
BY DEF RepairInv, GenerationInv, RepairAhead, PassAhead

\* A page leaves behind its cursor only what it holds.
LEMMA PageCovers ==
    ASSUME NEW keys \in SUBSET Leases, NEW c \in Cursors, NEW p \in SUBSET Leases,
           NEW end \in Cursors, Page(keys, c, p), PageEnd(p, c, end),
           NEW l \in keys, c < l
    PROVE  l \in p \/ (~(Cardinality(p) < PageSize) /\ end < l)
<1> SUFFICES ASSUME l \notin p PROVE ~(Cardinality(p) < PageSize) /\ end < l
  OBVIOUS
<1>1. l \in {k \in keys : k > c} /\ l \in Int /\ c \in Int /\ end \in Int
  BY IndexAssumption DEF Cursors, None
<1>2. p # {k \in keys : k > c}
  BY <1>1
<1>3. Cardinality(p) = PageSize
  BY <1>2 DEF Page
<1>4. end < l
  BY <1>1 DEF Page, PageEnd
<1> QED BY <1>3, <1>4, PageAssumption

\* On a coalescing store every step keeps a scan ahead of what is missing.
LEMMA RepairStep ==
    ASSUME Coalescing, TypeOK, CursorInv, RepairInv, [Next]_vars
    PROVE  RepairInv'
<1>0. /\ pass \in Passes /\ stored \in States /\ generation \in Nat
      /\ pass.state \in States /\ pass.cursor \in Cursors
  BY PassFields DEF TypeOK
<1>a. /\ Missing \in SUBSET Leases
      /\ \A l \in Leases : l \in Nat /\ l # 0
  BY IndexAssumption DEF Missing
<1>b. Idle.pc = "idle"
  BY DEF Idle
<1>1. CASE UNCHANGED vars
  <2>1. Missing' = Missing
    BY <1>1 DEF vars, Missing
  <2> QED BY <1>1, <2>1, RepairKeep DEF vars
<1>2. ASSUME NEW l \in Leases, Writers(l) \/ FinishWrite(l) PROVE RepairInv'
  <2>1. write[l] = "none"
    BY DEF RepairInv
  <2>2. PICK r \in {"absent", "member", "history"} : WriteAtomic(l, r) \/ OldWrite(l, r)
    BY <1>2, <2>1 DEF Writers, FinishWrite, PublishEntry, PublishLease,
                      RetractLease, RetractEntry, FailWrite
  <2>3. CASE WriteAtomic(l, r)
    <3>1. Missing' \subseteq Missing
      BY <2>3 DEF WriteAtomic, Missing, TypeOK
    <3> QED BY <2>3, <3>1, RepairKeep DEF WriteAtomic
  <2>4. CASE OldWrite(l, r)
    <3>1. stored.generation # generation /\ pass.pc = "idle"
      BY <2>4 DEF OldWrite, RepairInv, GenerationInv
    <3> QED BY <2>4, <3>1
            DEF OldWrite, RepairInv, GenerationInv, RepairAhead, PassAhead
  <2> QED BY <2>2, <2>3, <2>4
<1>3. CASE StartPass
  <2>1. /\ pass'.state = Renewed(stored) /\ pass'.pc \in {"sweep", "scan"}
        /\ UNCHANGED <<rec, index, write, code, generation, stored>>
        /\ code = "new"
    BY <1>3 DEF StartPass, Idle
  <2>2. Missing' = Missing
    BY <2>1 DEF Missing
  <2>3. Renewed(stored).generation = generation
    BY <1>0 DEF Renewed, States
  <2>4. ASSUME NEW l \in Missing
        PROVE  Renewed(stored).scan # None /\ Renewed(stored).scan < l
    <3>1. stored.generation # generation \/ (stored.scan # None /\ stored.scan < l)
      BY DEF RepairInv, RepairAhead
    <3>2. Renewed(stored).scan = IF stored.generation # generation THEN 0
                                 ELSE IF stored.complete /\ stored.scan = None
                                         /\ ~stored.auditWait THEN 0
                                 ELSE stored.scan
      BY <1>0 DEF Renewed, States
    <3> QED BY <1>a, <3>1, <3>2 DEF None
  <2> QED BY <2>1, <2>2, <2>3, <2>4
          DEF RepairInv, GenerationInv, RepairAhead, PassAhead
<1>4. CASE ReadPage
  <2> DEFINE keys == {l \in Leases : rec[l] # "absent"}
  <2>1. PICK p \in SUBSET Leases, end \in Cursors :
          /\ Page(keys, pass.state.scan, p)
          /\ PageEnd(p, pass.state.scan, end)
          /\ pass' = [pass EXCEPT !.pc = "add",
                                  !.todo = {l \in p : rec[l] = "member"},
                                  !.cursor = end,
                                  !.last = Cardinality(p) < PageSize]
    BY <1>4 DEF ReadPage
  <2>2. /\ pass.pc = "scan"
        /\ UNCHANGED <<rec, index, write, code, generation, stored>>
    BY <1>4 DEF ReadPage
  <2>3. /\ pass'.pc = "add" /\ pass'.todo = {l \in p : rec[l] = "member"}
        /\ pass'.cursor = end /\ pass'.last = (Cardinality(p) < PageSize)
        /\ pass'.state = pass.state
    BY <1>0, <2>1 DEF Passes
  <2>4. Missing' = Missing
    BY <2>2 DEF Missing
  <2>5. ASSUME NEW l \in Missing
        PROVE  l \in pass'.todo \/ (~pass'.last /\ pass'.cursor < l)
    <3>1. l \in keys /\ rec[l] = "member" /\ pass.state.scan < l
      BY <2>2 DEF Missing, RepairInv, PassAhead
    <3>2. pass.state.scan \in Cursors /\ keys \in SUBSET Leases
      BY <1>0 DEF States
    <3>3. l \in p \/ (~(Cardinality(p) < PageSize) /\ end < l)
      <4> HIDE DEF keys
      <4> QED BY <2>1, <3>1, <3>2, PageCovers
    <3> QED BY <2>3, <3>1, <3>3
  <2> QED BY <2>2, <2>3, <2>4, <2>5
          DEF RepairInv, GenerationInv, RepairAhead, PassAhead
<1>5. ASSUME NEW l \in Leases, AddMember(l) PROVE RepairInv'
  <2>1. /\ pass.pc = "add" /\ pass'.pc = "add" /\ pass'.todo = pass.todo \ {l}
        /\ pass'.cursor = pass.cursor /\ pass'.last = pass.last
        /\ pass'.state = pass.state
        /\ UNCHANGED <<rec, write, code, generation, stored>>
    BY <1>0, <1>5 DEF AddMember, Passes
  <2>2. Missing' \subseteq Missing \ {l}
    BY <1>5 DEF AddMember, Missing
  <2> QED BY <2>1, <2>2 DEF RepairInv, GenerationInv, RepairAhead, PassAhead
<1>6. ASSUME NEW l \in Leases, VisitEntry(l) \/ RecheckEntry(l) PROVE RepairInv'
  <2>1. /\ pass.pc \in {"prune", "recheck"} /\ pass'.pc \in {"prune", "recheck"}
        /\ pass'.state = pass.state
        /\ UNCHANGED <<rec, write, code, generation, stored>>
    BY <1>0, <1>6 DEF VisitEntry, RecheckEntry, Passes
  <2>2. Missing' \subseteq Missing
    BY <1>6 DEF VisitEntry, RecheckEntry, Pruned, Missing
  <2> QED BY <2>1, <2>2 DEF RepairInv, GenerationInv, RepairAhead, PassAhead
<1>7. CASE EndPage
  <2> DEFINE s == Scanned(pass.state, pass.cursor, pass.last)
  <2>1. /\ pass.pc = "add" /\ pass.todo = {} /\ stored' = s
        /\ UNCHANGED <<rec, index, write, code, generation>>
    BY <1>7 DEF EndPage
  <2>2. pass'.state = s /\ pass'.pc \in {"sweep", "scan"}
    BY <1>0, <1>7 DEF EndPage, Passes
  <2>3. /\ s.generation = pass.state.generation
        /\ ~pass.last => s.scan = pass.cursor
    BY <1>0 DEF Scanned, States
  <2>4. Missing' = Missing
    BY <2>1 DEF Missing
  <2>5. \A l \in Missing : s.scan # None /\ s.scan < l
    BY <2>1, <2>3 DEF RepairInv, PassAhead, CursorInv
  <2>6. s.generation = generation /\ code # "old"
    BY <2>1, <2>3 DEF RepairInv, GenerationInv
  <2> HIDE DEF s
  <2> QED BY <1>0, <2>1, <2>2, <2>4, <2>5, <2>6
          DEF RepairInv, GenerationInv, RepairAhead, PassAhead
<1>8. CASE SkipSweep \/ ReadEntries \/ EndSweepPage
  <2>1. /\ pass.pc \in {"sweep", "prune"} /\ pass'.pc \in {"sweep", "prune", "save"}
        /\ pass'.state.scan = pass.state.scan
        /\ pass'.state.generation = pass.state.generation
        /\ UNCHANGED <<rec, index, write, code, generation, stored>>
    <3>1. CASE SkipSweep
      BY <1>0, <3>1 DEF SkipSweep, Passes
    <3>2. CASE ReadEntries
      BY <1>0, <3>2 DEF ReadEntries, Passes
    <3>3. CASE EndSweepPage
      BY <1>0, <3>3 DEF EndSweepPage, Swept, Passes, States
    <3> QED BY <1>8, <3>1, <3>2, <3>3
  <2>2. Missing' = Missing
    BY <2>1 DEF Missing
  <2> QED BY <2>1, <2>2 DEF RepairInv, GenerationInv, RepairAhead, PassAhead
<1>9. CASE SavePass
  <2>1. /\ pass.pc = "save" /\ stored' = pass.state /\ pass'.pc = "idle"
        /\ UNCHANGED <<rec, index, write, code, generation>>
    BY <1>9, <1>b DEF SavePass
  <2>2. Missing' = Missing
    BY <2>1 DEF Missing
  <2> QED BY <1>0, <2>1, <2>2 DEF RepairInv, GenerationInv, RepairAhead, PassAhead
<1>10. CASE FailPass
  <2>1. Missing' = Missing
    BY <1>10 DEF FailPass, Missing
  <2> QED BY <1>10, <1>b, <2>1
          DEF FailPass, RepairInv, GenerationInv, RepairAhead, PassAhead
<1>11. CASE Elapse
  <2>1. /\ stored'.generation = stored.generation /\ stored'.scan = stored.scan
        /\ UNCHANGED <<rec, index, write, code, generation, pass>>
    BY <1>0, <1>11 DEF Elapse, States
  <2>2. Missing' = Missing
    BY <2>1 DEF Missing
  <2> QED BY <2>1, <2>2 DEF RepairInv, GenerationInv, RepairAhead, PassAhead
<1>12. ASSUME NEW c \in Codes, Deploy(c) PROVE RepairInv'
  <2>1. /\ generation' = generation + 1 /\ stored' = stored /\ pass'.pc = "idle"
        /\ write' = [l \in Leases |-> "none"]
    BY <1>12, <1>b DEF Deploy
  <2>2. stored.generation \in Nat /\ stored.generation <= generation
    BY <1>0 DEF States, RepairInv, GenerationInv
  <2>3. stored'.generation < generation'
    BY <1>0, <2>1, <2>2
  <2>4. stored'.generation # generation' /\ stored'.generation <= generation'
    BY <1>0, <2>1, <2>2
  <2> QED BY <2>1, <2>4 DEF RepairInv, GenerationInv, RepairAhead, PassAhead
<1> QED BY <1>1, <1>2, <1>3, <1>4, <1>5, <1>6, <1>7, <1>8, <1>9, <1>10, <1>11,
           <1>12 DEF Next, Maintenance

\* On a Durable Object's store a member is missing from the index only while a
\* scan that will find it lies ahead, for any leases, page sizes, and number of
\* restarts, rollbacks and failing passes.
THEOREM MembersRepaired == ASSUME Coalescing PROVE Spec => []RepairAhead
<1>1. Init => RepairInv
  <2> SUFFICES ASSUME Init PROVE RepairInv
    OBVIOUS
  <2>1. stored.generation = 0 /\ generation = 1 /\ pass.pc = "idle" /\ code = "new"
    BY DEF Init, NoState, Idle
  <2> QED BY <2>1 DEF Init, RepairInv, GenerationInv, RepairAhead, PassAhead
<1>2. TypeOK /\ CursorInv /\ RepairInv /\ [Next]_vars => RepairInv'
  BY RepairStep
<1>3. RepairInv => RepairAhead
  BY DEF RepairInv
<1> QED BY <1>1, <1>2, <1>3, IndexTypeCorrect, PTL DEF Spec
=============================================================================
