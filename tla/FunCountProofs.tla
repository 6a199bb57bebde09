--------------------------- MODULE FunCountProofs ---------------------------
(***************************************************************************)
(* That functions of opened objects are never counted as unknown, and that   *)
(* no call is lost, whatever the objects, the threads and the number of      *)
(* tables, when the program's threads are joined before main() returns.     *)
(***************************************************************************)
EXTENDS FunCount, InductionLemmas, TLAPS

\* Where page has its count in every table.
Tabulated(page) ==
  \A i \in Tables : High(page) \in pagesL1[i] /\ page \in pages[i]

Complete(o) == \A page \in Segment(o) : Tabulated(page)

------------------------------------------------------------------------------
(* The inductive invariant.                                                 *)

Working == phase \in {"loading", "init", "running"}

\* What the loop under way has done: the tables before this one, and the pages
\* before this one in it.
RangeSound ==
  Working /\ range # NoRange =>
    /\ range.object \in Objects
    /\ First[range.object] <= range.page
    /\ \A i \in Tables, page \in Segment(range.object) :
         i < range.table \/ (i = range.table /\ page < range.page) =>
           High(page) \in pagesL1[i] /\ page \in pages[i]

\* What an iteration has not reached yet is in todo.
IterationSound ==
  /\ lock = Nobody => todo = {} /\ range = NoRange
  /\ Working /\ lock # Nobody =>
       \A o \in mapped : o \in todo \/ o = range.object \/ Complete(o)

\* Who holds the lock while the tables are filled.
Holder ==
  /\ phase = "loading" => lock = Nobody
  /\ phase = "init" => lock = Main
  /\ phase = "running" /\ lock # Nobody => dlpc[lock] = "allocating"
  /\ \A t \in Threads : dlpc[t] = "allocating" => lock = t
  /\ \A t \in Threads : dlpc[t] # "out" => opening[t] \in mapped

\* What has been opened is in every table.
OpenedComplete == phase = "running" => \A o \in opened : Complete(o)

\* A call of an opened object's function finds its page.
CallsComplete ==
  phase = "running" =>
    \A t \in Threads : call[t].known /\ pc[t] # "out" =>
      call[t].page # Unknown /\ Tabulated(call[t].page)

\* Nothing is opened before funcount_init() ends, no thread runs after main().
Outside ==
  /\ phase \in {"loading", "init"} =>
       /\ opened = {}
       /\ \A t \in Threads : dlpc[t] = "out" /\ (pc[t] # "out" => ~call[t].known)
  /\ ~Working => lock = Nobody /\ \A t \in Threads : dlpc[t] = "out"
  /\ phase = "ending" => \A t \in Threads : pc[t] = "out"

IInv ==
  /\ TypeOK
  /\ RangeSound
  /\ IterationSound
  /\ Holder
  /\ OpenedComplete
  /\ CallsComplete
  /\ Outside

------------------------------------------------------------------------------
LEMMA SlotsAre ==
  Unknown \in Slots /\ Pages \subseteq Nat /\ Unknown \notin Nat
BY ObjectsAssumption DEF ObjectsAssumption, Slots, Pages, Unknown

LEMMA SegmentsPaged ==
  ASSUME NEW o \in Objects, NEW page \in Nat, First[o] <= page, page <= Last[o] + 1
  PROVE  page \in Pages
BY ObjectsAssumption DEF ObjectsAssumption, Pages

LEMMA SegmentIs ==
  ASSUME NEW o \in Objects
  PROVE  /\ First[o] \in Nat /\ Last[o] \in Nat
         /\ \A p \in Segment(o) : p \in Nat /\ First[o] <= p /\ p <= Last[o]
BY ObjectsAssumption DEF ObjectsAssumption, Segment

LEMMA TableIs == \A i \in Tables : i \in Nat /\ i < NTables
BY SizesAssumption DEF SizesAssumption, Tables

LEMMA TablesAre == 0 \in Tables /\ NTables - 1 \in Tables /\ Tables \subseteq Nat
BY SizesAssumption DEF SizesAssumption, Tables

\* A program's start.
LEMMA InitHolds == Init => IInv
<1>. SUFFICES ASSUME Init PROVE IInv
  OBVIOUS
<1>. USE DEF Init
<1>1. TypeOK
  BY SlotsAre, TablesAre, ObjectsAssumption, SizesAssumption
     DEF TypeOK, ObjectsAssumption, SizesAssumption, Phases, NoRange
<1>2. RangeSound /\ IterationSound /\ Holder
  BY ObjectsAssumption DEF ObjectsAssumption, RangeSound, IterationSound, Holder, Working
<1>3. OpenedComplete /\ CallsComplete /\ Outside
  BY DEF OpenedComplete, CallsComplete, Outside, Working
<1>. QED
  BY <1>1, <1>2, <1>3 DEF IInv

\* The tables only grow: what they had, they have.
LEMMA GrownTables ==
  ASSUME TypeOK,
         \A i \in Tables : pagesL1[i] \subseteq pagesL1'[i] /\ pages[i] \subseteq pages'[i]
  PROVE  /\ \A page \in Nat : Tabulated(page) => Tabulated(page)'
         /\ \A o \in Objects : Complete(o) => Complete(o)'
<1>1. \A page \in Nat : Tabulated(page) => Tabulated(page)'
  BY DEF Tabulated, High
<1>2. \A o \in Objects : Segment(o) \subseteq Nat
  BY ObjectsAssumption DEF ObjectsAssumption, Segment
<1>. QED
  BY <1>1, <1>2 DEF Complete, Segment

------------------------------------------------------------------------------
(* Calls.                                                                   *)

\* The steps of a call change nothing but the call and the counts.
LEMMA CallTypes ==
  ASSUME IInv, NEW t \in Threads,
         (\E o \in mapped : \E page \in Segment(o) : Enter(t, o, page))
           \/ GetHigh(t) \/ GetMid(t) \/ Count(t)
  PROVE  TypeOK' /\ UNCHANGED <<phase, dlVars, tableVars>>
<1>1. UNCHANGED <<phase, dlVars, tableVars, endVars>>
  BY DEF Enter, GetHigh, GetMid, Count
<1>2. pc' \in [Threads -> {"out", "high", "mid", "count"}]
  <2>1. pc \in [Threads -> {"out", "high", "mid", "count"}]
    BY DEF IInv, TypeOK
  <2>2. \E to \in {"out", "high", "mid", "count"} : pc' = [pc EXCEPT ![t] = to]
    <3>1. CASE \E o \in mapped : \E page \in Segment(o) : Enter(t, o, page)
      BY <3>1, Zenon DEF Enter
    <3>2. CASE GetHigh(t)
      BY <3>2 DEF GetHigh
    <3>3. CASE GetMid(t)
      BY <3>3, Zenon DEF GetMid
    <3>4. CASE Count(t)
      BY <3>4, Zenon DEF Count
    <3>. QED
      BY <3>1, <3>2, <3>3, <3>4
  <2>. QED
    BY ONLY <2>1, <2>2
<1>3. call' \in [Threads -> [page : Slots, table : Tables, known : BOOLEAN]]
  <2>. DEFINE Call == [page : Slots, table : Tables, known : BOOLEAN]
  <2>1. call \in [Threads -> Call] /\ opened \subseteq Objects /\ mapped \subseteq Objects
    BY DEF IInv, TypeOK
  <2>2. CASE \E o \in mapped : \E page \in Segment(o) : Enter(t, o, page)
    <3>a. PICK o \in mapped : \E page \in Segment(o) : Enter(t, o, page)
      BY <2>2
    <3>0. PICK page \in Segment(o) : Enter(t, o, page)
      BY <3>a
    <3>1. PICK i \in Tables :
            call' = [call EXCEPT ![t] = [page |-> page, table |-> i, known |-> o \in opened]]
      BY <3>0 DEF Enter
    <3>2. page \in Slots
      BY <2>1, SegmentsPaged, ObjectsAssumption DEF ObjectsAssumption, Segment, Slots
    <3>. QED
      BY <2>1, <3>1, <3>2
  <2>3. CASE call' = call \/ call' = [call EXCEPT ![t].page = Unknown]
    BY <2>1, <2>3, SlotsAre
  <2>. QED
    BY <2>2, <2>3 DEF GetHigh, GetMid, Count
<1>4. counts' \in [Tables -> [Slots -> Nat]] /\ made' \in [Slots -> Nat] /\ calls' \in Nat
  <2>1. /\ counts \in [Tables -> [Slots -> Nat]] /\ made \in [Slots -> Nat] /\ calls \in Nat
        /\ call[t].table \in Tables /\ call[t].page \in Slots
    BY DEF IInv, TypeOK
  <2>2. CASE UNCHANGED <<counts, made>>
    BY <2>1, <2>2 DEF Enter, GetHigh, GetMid, Count, callVars
  <2>3. CASE Count(t)
    <3>. DEFINE c == call[t]
    <3>1. counts[c.table][c.page] \in Nat /\ made[c.page] \in Nat
      BY <2>1
    <3>2. counts' \in [Tables -> [Slots -> Nat]]
      BY <2>1, <2>3, <3>1 DEF Count
    <3>3. made' \in [Slots -> Nat] /\ calls' = calls
      BY <2>1, <2>3, <3>1 DEF Count
    <3>. QED
      BY <2>1, <3>2, <3>3
  <2>. QED
    BY <2>2, <2>3 DEF Enter, GetHigh, GetMid, Count
<1>. QED
  BY <1>1, <1>2, <1>3, <1>4 DEF IInv, TypeOK, dlVars, tableVars, endVars

LEMMA CallStep ==
  ASSUME IInv, Joined, NEW t \in Threads,
         (\E o \in mapped : \E page \in Segment(o) : Enter(t, o, page))
           \/ GetHigh(t) \/ GetMid(t) \/ Count(t)
  PROVE  IInv'
<1>1. TypeOK' /\ UNCHANGED <<phase, dlVars, tableVars>>
  BY CallTypes
<1>2. \A page : Tabulated(page)' <=> Tabulated(page)
  BY <1>1 DEF Tabulated, tableVars
<1>3. RangeSound' /\ IterationSound' /\ Holder' /\ OpenedComplete'
  BY <1>1, <1>2 DEF IInv, RangeSound, IterationSound, Holder, OpenedComplete, Complete,
                    Working, dlVars, tableVars
<1>. HIDE DEF Tabulated
<1>4. CASE \E o \in mapped : \E page \in Segment(o) : Enter(t, o, page)
  <2>0. PICK o \in mapped : \E page \in Segment(o) : Enter(t, o, page)
    BY <1>4
  <2>1. PICK page \in Segment(o) : Enter(t, o, page)
    BY <2>0
  <2>2. /\ pc' = [pc EXCEPT ![t] = "high"]
        /\ call'[t].page = page /\ call'[t].known = (o \in opened)
        /\ \A s \in Threads : s # t => call'[s] = call[s]
    <3>1. PICK i \in Tables :
            call' = [call EXCEPT ![t] = [page |-> page, table |-> i, known |-> o \in opened]]
      BY <2>1 DEF Enter
    <3>2. DOMAIN call = Threads
      BY DEF IInv, TypeOK
    <3>3. call'[t] = [page |-> page, table |-> i, known |-> o \in opened]
      BY <3>1, <3>2
    <3>4. \A s \in Threads : s # t => call'[s] = call[s]
      BY <3>1, <3>2
    <3>5. call'[t].page = page /\ call'[t].known = (o \in opened)
      BY <3>3
    <3>. QED
      BY <2>1, <3>4, <3>5 DEF Enter
  <2>3. CallsComplete'
    <3>1. page # Unknown
      BY <2>1, SlotsAre, ObjectsAssumption DEF ObjectsAssumption, Segment, Unknown, IInv, TypeOK
    <3>2. phase = "running" /\ o \in opened => Tabulated(page)
      BY DEF IInv, OpenedComplete, Complete
    <3>. QED
      BY <1>1, <1>2, <2>2, <3>1, <3>2 DEF CallsComplete, IInv, TypeOK
  <2>4. phase # "ending" /\ ~(phase = "init")
    BY <2>1 DEF Enter, MayCall
  <2>5. Outside'
    BY <1>1, <2>2, <2>4 DEF Outside, Working, IInv, TypeOK, dlVars
  <2>. QED
    BY <1>1, <1>3, <2>3, <2>5 DEF IInv
<1>5. CASE GetHigh(t) \/ GetMid(t) \/ Count(t)
  <2>1. /\ pc[t] # "out"
        /\ \A s \in Threads : pc'[s] # "out" => pc[s] # "out"
        /\ \A s \in Threads : call'[s].known = call[s].known
    <3>1. /\ call \in [Threads -> [page : Slots, table : Tables, known : BOOLEAN]]
          /\ pc \in [Threads -> {"out", "high", "mid", "count"}]
      BY DEF IInv, TypeOK
    <3>2. call' = call \/ call' = [call EXCEPT ![t].page = Unknown]
      BY <1>5 DEF GetHigh, GetMid, Count
    <3>3. pc[t] # "out" /\ \A s \in Threads : s # t => pc'[s] = pc[s]
      BY <1>5, <3>1 DEF GetHigh, GetMid, Count
    <3>4. \A s \in Threads : call'[s].known = call[s].known
      BY <3>1, <3>2
    <3>. QED
      BY <3>3, <3>4
  <2>2. \A s \in Threads : Tabulated(call[s].page) /\ call[s].page # Unknown =>
                               call'[s].page = call[s].page
    <3>1. call[t].table \in Tables /\ call \in [Threads -> [page : Slots, table : Tables, known : BOOLEAN]]
      BY DEF IInv, TypeOK
    <3>2. \/ call' = call
          \/ call' = [call EXCEPT ![t].page = Unknown] /\ ~Tabulated(call[t].page)
      BY <1>5, <3>1 DEF GetHigh, GetMid, Count, Tabulated
    <3>. QED
      BY <3>1, <3>2
  <2>3. CallsComplete'
    BY <1>1, <1>2, <2>1, <2>2 DEF CallsComplete, IInv
  <2>4. Outside'
    BY <1>1, <2>1 DEF Outside, Working, IInv, dlVars
  <2>. QED
    BY <1>1, <1>3, <2>3, <2>4 DEF IInv
<1>. QED
  BY <1>4, <1>5

------------------------------------------------------------------------------
(* The tables are filled.                                                   *)

\* A step of an iteration, which may add to the tables, and what it leaves.
LEMMA TabulateKeeps ==
  ASSUME IInv, TypeOK', RangeSound', IterationSound',
         UNCHANGED <<phase, mapped, opened, lock, opening, dlpc, pc, call>>,
         \A i \in Tables : pagesL1[i] \subseteq pagesL1'[i] /\ pages[i] \subseteq pages'[i]
  PROVE  IInv'
<1>1. Holder' /\ Outside'
  BY DEF IInv, Holder, Outside, Working
<1>2. /\ \A page \in Nat : Tabulated(page) => Tabulated(page)'
      /\ \A o \in Objects : Complete(o) => Complete(o)'
  BY GrownTables DEF IInv
<1>. HIDE DEF Tabulated, Complete
<1>3. OpenedComplete'
  BY <1>2 DEF IInv, TypeOK, OpenedComplete
<1>4. CallsComplete'
  <2>1. \A t \in Threads : call[t].page # Unknown => call[t].page \in Nat
    BY SlotsAre DEF IInv, TypeOK, Slots
  <2>. QED
    BY <1>2, <2>1 DEF IInv, CallsComplete
<1>. QED
  BY <1>1, <1>3, <1>4 DEF IInv

LEMMA NextObjectStep == IInv /\ NextObject => IInv'
<1>. SUFFICES ASSUME IInv, NextObject PROVE IInv'
  OBVIOUS
<1>1. PICK o \in todo : /\ todo' = todo \ {o}
                        /\ range' = [object |-> o, table |-> 0, page |-> First[o]]
  BY DEF NextObject
<1>2. o \in Objects /\ First[o] \in Nat /\ o # Nobody
  BY ObjectsAssumption DEF ObjectsAssumption, IInv, TypeOK
<1>3. UNCHANGED <<phase, mapped, opened, lock, opening, dlpc, tableVars, counts, callVars, endVars>>
  BY DEF NextObject
<1>4. TypeOK'
  <2>1. todo' \subseteq Objects
    BY <1>1 DEF IInv, TypeOK
  <2>2. range' \in [object : Objects \cup {Nobody}, table : Tables, page : Nat]
    BY <1>1, <1>2, TablesAre
  <2>. QED
    BY <1>3, <2>1, <2>2 DEF IInv, TypeOK, tableVars, callVars, endVars
<1>5. RangeSound'
  BY <1>1, <1>2, TablesAre, ObjectsAssumption DEF RangeSound, Segment, ObjectsAssumption
<1>6. \A q : Complete(q)' <=> Complete(q)
  BY <1>3 DEF Complete, Tabulated, tableVars
<1>. HIDE DEF Complete
<1>7. IterationSound'
  <2>1. lock # Nobody /\ range.object = Nobody
    BY DEF NextObject, NoRange
  <2>2. \A q \in mapped : q # Nobody
    BY ObjectsAssumption DEF ObjectsAssumption, IInv, TypeOK
  <2>. QED
    BY <1>1, <1>3, <1>6, <2>1, <2>2 DEF IInv, IterationSound, Working
<1>8. \A i \in Tables : pagesL1[i] \subseteq pagesL1'[i] /\ pages[i] \subseteq pages'[i]
  BY <1>3 DEF tableVars
<1>. QED
  BY <1>3, <1>4, <1>5, <1>7, <1>8, TabulateKeeps DEF callVars

LEMMA AllocateHighStep == IInv /\ AllocateHigh => IInv'
<1>. SUFFICES ASSUME IInv, AllocateHigh PROVE IInv'
  OBVIOUS
<1>. DEFINE i == range.table
           page == range.page
           o == range.object
<1>1. /\ range # NoRange /\ page <= Last[o] + 1
      /\ pagesL1' = [pagesL1 EXCEPT ![i] = @ \cup {High(page)}]
      /\ UNCHANGED <<phase, mapped, opened, lock, todo, range, opening, dlpc, pages, counts,
                     callVars, endVars>>
  BY DEF AllocateHigh, dlVars
<1>2. /\ range \in [object : Objects \cup {Nobody}, table : Tables, page : Nat]
      /\ i \in Tables /\ page \in Nat
      /\ pagesL1 \in [Tables -> SUBSET {High(p) : p \in Pages}]
  BY DEF IInv, TypeOK
<1>3. Working
  BY <1>1 DEF IInv, IterationSound, Outside
<1>4. page \in Pages
  BY <1>1, <1>2, <1>3, SegmentsPaged DEF IInv, RangeSound
<1>5. TypeOK'
  <2>1. pagesL1' \in [Tables -> SUBSET {High(p) : p \in Pages}]
    BY <1>1, <1>2, <1>4
  <2>. QED
    BY <1>1, <2>1 DEF IInv, TypeOK, callVars, endVars
<1>6. \A j \in Tables : pagesL1[j] \subseteq pagesL1'[j] /\ pages[j] \subseteq pages'[j]
  BY <1>1, <1>2
<1>7. RangeSound'
  BY <1>1, <1>6 DEF IInv, RangeSound, Working, High
<1>8. IterationSound'
  <2>1. \A q \in Objects : Complete(q) => Complete(q)'
    BY <1>6, GrownTables DEF IInv
  <2>2. mapped \subseteq Objects
    BY DEF IInv, TypeOK
  <2>. HIDE DEF Complete
  <2>. QED
    BY <1>1, <2>1, <2>2 DEF IInv, IterationSound, Working
<1>. QED
  BY <1>1, <1>5, <1>6, <1>7, <1>8, TabulateKeeps DEF callVars

LEMMA AllocatePageStep == IInv /\ AllocatePage => IInv'
<1>. SUFFICES ASSUME IInv, AllocatePage PROVE IInv'
  OBVIOUS
<1>. DEFINE i == range.table
           page == range.page
           o == range.object
<1>1. /\ range # NoRange /\ page <= Last[o] + 1
      /\ High(page) \in pagesL1[i]
      /\ pages' = [pages EXCEPT ![i] = @ \cup {page}]
      /\ range' = [range EXCEPT !.page = page + 1]
      /\ UNCHANGED <<phase, mapped, opened, lock, todo, opening, dlpc, pagesL1, callVars, endVars>>
  BY DEF AllocatePage
<1>2. /\ range \in [object : Objects \cup {Nobody}, table : Tables, page : Nat]
      /\ i \in Tables /\ page \in Nat
      /\ pagesL1 \in [Tables -> SUBSET {High(p) : p \in Pages}]
      /\ pages \in [Tables -> SUBSET Pages]
      /\ counts \in [Tables -> [Slots -> Nat]]
  BY DEF IInv, TypeOK
<1>3. Working
  BY <1>1 DEF IInv, IterationSound, Outside
<1>4. o \in Objects /\ First[o] <= page /\ page \in Pages
  BY <1>1, <1>2, <1>3, SegmentsPaged DEF IInv, RangeSound
<1>5. TypeOK'
  <2>1. pagesL1' \in [Tables -> SUBSET {High(p) : p \in Pages}]
    BY <1>1, <1>2
  <2>2. pages' \in [Tables -> SUBSET Pages]
    BY <1>1, <1>2, <1>4
  <2>3. counts' \in [Tables -> [Slots -> Nat]]
    BY <1>2 DEF AllocatePage
  <2>4. range' \in [object : Objects \cup {Nobody}, table : Tables, page : Nat]
    <3>1. range' = [object |-> o, table |-> i, page |-> page + 1]
      BY <1>1, <1>2
    <3>2. o \in Objects /\ i \in Tables /\ page + 1 \in Nat
      BY <1>2, <1>4
    <3>. QED
      BY <3>1, <3>2
  <2>. QED
    BY <1>1, <2>1, <2>2, <2>3, <2>4 DEF IInv, TypeOK, callVars, endVars
<1>6. \A j \in Tables : pagesL1[j] \subseteq pagesL1'[j] /\ pages[j] \subseteq pages'[j]
  BY <1>1, <1>2
<1>7. High(page) \in pagesL1'[i] /\ page \in pages'[i]
  <2>0. DOMAIN pages = Tables
    BY <1>2
  <2>. HIDE DEF page
  <2>1. High(page) \in pagesL1'[i]
    BY <1>1
  <2>2. pages'[i] = pages[i] \cup {page}
    BY <1>1, <1>2, <2>0
  <2>. QED
    BY <2>1, <2>2
<1>8. range'.object = o /\ range'.table = i /\ range'.page = page + 1
  BY <1>1, <1>2
<1>9. RangeSound'
  <2>. SUFFICES ASSUME NEW j \in Tables, NEW p \in Segment(o),
                       j < i \/ (j = i /\ p < page + 1)
                PROVE  High(p) \in pagesL1'[j] /\ p \in pages'[j]
    BY <1>2, <1>4, <1>8, ObjectsAssumption DEF RangeSound, ObjectsAssumption, High
  <2>1. p \in Nat /\ j \in Nat /\ i \in Nat
    <3>1. p \in Nat
      BY <1>4, SegmentIs
    <3>2. i \in Tables
      BY <1>2
    <3>. QED
      BY <3>1, <3>2, TableIs
  <2>2. page \in Nat
    BY <1>2
  <2>. HIDE DEF page, i
  <2>3. CASE j = i /\ p = page
    BY <1>7, <2>3
  <2>4. CASE j < i \/ (j = i /\ p < page)
    <3>1. High(p) \in pagesL1[j] /\ p \in pages[j]
      BY <1>1, <1>3, <2>4 DEF IInv, RangeSound, page, i
    <3>. QED
      BY <1>6, <3>1 DEF High
  <2>. QED
    BY <2>1, <2>2, <2>3, <2>4
<1>10. IterationSound'
  <2>1. \A q \in Objects : Complete(q) => Complete(q)'
    BY <1>6, GrownTables DEF IInv
  <2>. HIDE DEF Complete
  <2>2. lock # Nobody
    BY <1>1 DEF IInv, IterationSound
  <2>3. mapped \subseteq Objects
    BY DEF IInv, TypeOK
  <2>. QED
    BY <1>1, <1>8, <2>1, <2>2, <2>3 DEF IInv, IterationSound, Working
<1>. QED
  BY <1>1, <1>5, <1>6, <1>9, <1>10, TabulateKeeps DEF callVars

LEMMA NextTableStep == IInv /\ NextTable => IInv'
<1>. SUFFICES ASSUME IInv, NextTable PROVE IInv'
  OBVIOUS
<1>. DEFINE i == range.table
           o == range.object
<1>1. /\ range # NoRange /\ range.page > Last[o] + 1
      /\ UNCHANGED <<phase, mapped, opened, lock, todo, opening, dlpc, tableVars, counts,
                     callVars, endVars>>
  BY DEF NextTable
<1>2. /\ range \in [object : Objects \cup {Nobody}, table : Tables, page : Nat]
      /\ i \in Tables /\ range.page \in Nat /\ mapped \subseteq Objects
  BY DEF IInv, TypeOK
<1>3. Working /\ lock # Nobody
  BY <1>1 DEF IInv, IterationSound, Outside
<1>4. o \in Objects /\ First[o] \in Nat /\ Last[o] \in Nat /\ o # Nobody
  BY <1>1, <1>3, ObjectsAssumption DEF IInv, RangeSound, ObjectsAssumption
<1>5. \A j \in Tables, p \in Segment(o) :
        j <= i => High(p) \in pagesL1[j] /\ p \in pages[j]
  <2>. SUFFICES ASSUME NEW j \in Tables, NEW p \in Segment(o), j <= i
                PROVE  High(p) \in pagesL1[j] /\ p \in pages[j]
    OBVIOUS
  <2>1. p \in Nat /\ p < range.page /\ j \in Nat /\ i \in Nat
    BY <1>1, <1>2, <1>4, SegmentIs, TableIs
  <2>2. j < i \/ (j = i /\ p < range.page)
    BY <2>1
  <2>. QED
    BY <1>1, <1>3, <2>2 DEF IInv, RangeSound
<1>6. \A q : (Complete(q)' <=> Complete(q))
  BY <1>1 DEF Complete, Tabulated, tableVars
<1>7. \A j \in Tables : pagesL1[j] \subseteq pagesL1'[j] /\ pages[j] \subseteq pages'[j]
  BY <1>1 DEF tableVars
<1>8. CASE i + 1 < NTables
  <2>1. range' = [object |-> o, table |-> i + 1, page |-> First[o]]
    BY <1>2, <1>8 DEF NextTable
  <2>2. i + 1 \in Tables
    BY <1>2, <1>8, SizesAssumption DEF Tables, SizesAssumption
  <2>3. TypeOK'
    BY <1>1, <1>4, <2>1, <2>2 DEF IInv, TypeOK, tableVars, callVars, endVars
  <2>4. RangeSound'
    <3>1. \A j \in Tables, p \in Segment(o) :
            j < i + 1 \/ (j = i + 1 /\ p < First[o]) => High(p) \in pagesL1[j] /\ p \in pages[j]
      <4>. SUFFICES ASSUME NEW j \in Tables, NEW p \in Segment(o),
                           j < i + 1 \/ (j = i + 1 /\ p < First[o])
                    PROVE  High(p) \in pagesL1[j] /\ p \in pages[j]
        OBVIOUS
      <4>1. p >= First[o] /\ p \in Nat /\ j \in Nat /\ i \in Nat
        BY <1>2, <1>4, SegmentIs, TableIs
      <4>2. j <= i
        BY <1>4, <4>1
      <4>. QED
        BY <1>5, <4>2
    <3>. QED
      BY <1>1, <1>4, <2>1, <3>1 DEF RangeSound, tableVars, High
  <2>5. IterationSound'
    BY <1>1, <1>3, <1>6, <2>1 DEF IInv, IterationSound, Working
  <2>. QED
    BY <1>1, <1>7, <2>3, <2>4, <2>5, TabulateKeeps DEF callVars
<1>9. CASE ~(i + 1 < NTables)
  <2>1. range' = NoRange
    BY <1>9 DEF NextTable
  <2>2. TypeOK'
    <3>1. range' \in [object : Objects \cup {Nobody}, table : Tables, page : Nat]
      BY <2>1, TablesAre DEF NoRange
    <3>. QED
      BY <1>1, <3>1 DEF IInv, TypeOK, tableVars, callVars, endVars
  <2>3. RangeSound'
    BY <2>1 DEF RangeSound, NoRange
  <2>4. Complete(o)
    BY <1>2, <1>5, <1>9, SizesAssumption DEF Complete, Tabulated, Tables, SizesAssumption
  <2>5. IterationSound'
    BY <1>1, <1>3, <1>6, <2>1, <2>4 DEF IInv, IterationSound, Working
  <2>. QED
    BY <1>1, <1>7, <2>2, <2>3, <2>5, TabulateKeeps DEF callVars
<1>. QED
  BY <1>8, <1>9

------------------------------------------------------------------------------
(* The start of the program.                                                *)

LEMMA InitTablesStep == IInv /\ InitTables => IInv'
<1>. SUFFICES ASSUME IInv, InitTables PROVE IInv'
  OBVIOUS
<1>1. /\ phase = "loading" /\ phase' = "init" /\ lock = Nobody /\ lock' = Main
      /\ todo' = mapped
      /\ UNCHANGED <<mapped, opened, range, opening, dlpc, callVars, endVars>>
  BY DEF InitTables, Iterate
<1>2. Main \in Threads /\ Main # Nobody
  BY ObjectsAssumption, SizesAssumption DEF ObjectsAssumption, SizesAssumption
<1>3. TypeOK'
  <2>1. /\ pagesL1' \in [Tables -> SUBSET {High(p) : p \in Pages}]
        /\ pages' \in [Tables -> SUBSET Pages]
    BY DEF InitTables
  <2>2. counts' \in [Tables -> [Slots -> Nat]]
    BY DEF InitTables
  <2>3. todo' \subseteq Objects
    BY <1>1 DEF IInv, TypeOK
  <2>. QED
    BY <1>1, <1>2, <2>1, <2>2, <2>3 DEF IInv, TypeOK, Phases, callVars, endVars
<1>4. RangeSound' /\ IterationSound'
  BY <1>1, <1>2 DEF IInv, IterationSound, RangeSound
<1>5. Holder'
  BY <1>1 DEF IInv, Holder, Outside
<1>6. OpenedComplete' /\ CallsComplete' /\ Outside'
  BY <1>1 DEF IInv, OpenedComplete, CallsComplete, Outside, Working, callVars
<1>. QED
  BY <1>3, <1>4, <1>5, <1>6 DEF IInv

\* Once everything has been iterated over, what is mapped is in every table.
LEMMA IteratedComplete ==
  ASSUME IInv, Working, lock # Nobody, Iterated
  PROVE  \A o \in mapped : Complete(o)
<1>1. todo = {} /\ range.object = Nobody /\ mapped \subseteq Objects
  BY DEF Iterated, NoRange, IInv, TypeOK
<1>2. \A o \in mapped : o # Nobody
  BY <1>1, ObjectsAssumption DEF ObjectsAssumption
<1>. QED
  BY <1>1, <1>2 DEF IInv, IterationSound

LEMMA InitDoneStep == IInv /\ InitDone => IInv'
<1>. SUFFICES ASSUME IInv, InitDone PROVE IInv'
  OBVIOUS
<1>1. /\ phase = "init" /\ phase' = "running" /\ Iterated /\ lock' = Nobody /\ opened' = mapped
      /\ UNCHANGED <<mapped, todo, range, opening, dlpc, tableVars, counts, callVars, endVars>>
  BY DEF InitDone
<1>2. lock = Main /\ Main \in Threads /\ Main # Nobody
  BY <1>1, ObjectsAssumption, SizesAssumption
     DEF IInv, Holder, ObjectsAssumption, SizesAssumption
<1>3. TypeOK'
  BY <1>1 DEF IInv, TypeOK, Phases, tableVars, callVars, endVars
<1>4. \A o \in mapped : Complete(o)
  BY <1>1, <1>2, IteratedComplete DEF Working
<1>5. \A o : Complete(o)' <=> Complete(o)
  BY <1>1 DEF Complete, Tabulated, tableVars
<1>6. RangeSound' /\ IterationSound'
  BY <1>1 DEF RangeSound, IterationSound, Iterated
<1>7. Holder' /\ Outside'
  BY <1>1 DEF IInv, Holder, Outside, Working
<1>8. OpenedComplete'
  BY <1>1, <1>4, <1>5 DEF OpenedComplete
<1>9. CallsComplete'
  BY <1>1 DEF IInv, Outside, CallsComplete, callVars
<1>. QED
  BY <1>3, <1>6, <1>7, <1>8, <1>9 DEF IInv

------------------------------------------------------------------------------
(* Opening and closing.                                                     *)

LEMMA DlOpenStep ==
  ASSUME IInv, NEW t \in Threads, NEW o \in Objects, DlOpen(t, o)
  PROVE  IInv'
<1>1. /\ phase = "running" /\ lock = Nobody /\ mapped' = mapped \cup {o}
      /\ opening' = [opening EXCEPT ![t] = o]
      /\ dlpc' = [dlpc EXCEPT ![t] = "constructors"]
      /\ UNCHANGED <<phase, opened, lock, todo, range, tableVars, counts, callVars, endVars>>
  BY DEF DlOpen
<1>2. TypeOK'
  BY <1>1 DEF IInv, TypeOK, tableVars, callVars, endVars
<1>3. \A q : Complete(q)' <=> Complete(q)
  BY <1>1 DEF Complete, Tabulated, tableVars
<1>4. RangeSound' /\ IterationSound'
  BY <1>1 DEF IInv, IterationSound, RangeSound, Working
<1>5. Holder'
  BY <1>1 DEF IInv, TypeOK, Holder
<1>6. OpenedComplete'
  BY <1>1, <1>3 DEF IInv, OpenedComplete
<1>7. CallsComplete'
  BY <1>1 DEF IInv, CallsComplete, Tabulated, tableVars, callVars
<1>8. Outside'
  BY <1>1 DEF Outside, Working
<1>. QED
  BY <1>2, <1>4, <1>5, <1>6, <1>7, <1>8 DEF IInv

LEMMA DlIterateStep ==
  ASSUME IInv, NEW t \in Threads, DlIterate(t)
  PROVE  IInv'
<1>1. /\ dlpc[t] = "constructors" /\ lock = Nobody /\ lock' = t /\ todo' = mapped
      /\ dlpc' = [dlpc EXCEPT ![t] = "allocating"]
      /\ UNCHANGED <<phase, mapped, opened, range, opening, tableVars, counts, callVars, endVars>>
  BY DEF DlIterate, Iterate
<1>2. phase = "running"
  BY <1>1 DEF IInv, Outside, Working
<1>3. TypeOK'
  BY <1>1 DEF IInv, TypeOK, tableVars, callVars, endVars
<1>4. \A q : Complete(q)' <=> Complete(q)
  BY <1>1 DEF Complete, Tabulated, tableVars
<1>5. RangeSound' /\ IterationSound'
  BY <1>1, ObjectsAssumption DEF IInv, IterationSound, RangeSound, ObjectsAssumption
<1>6. Holder'
  <2>1. \A u \in Threads : dlpc'[u] = IF u = t THEN "allocating" ELSE dlpc[u]
    BY <1>1 DEF IInv, TypeOK
  <2>2. \A u \in Threads : dlpc[u] # "allocating"
    BY <1>1, ObjectsAssumption DEF IInv, Holder, ObjectsAssumption
  <2>3. \A u \in Threads : dlpc'[u] # "out" => opening'[u] \in mapped'
    BY <1>1, <2>1 DEF IInv, Holder
  <2>. QED
    BY <1>1, <1>2, <2>1, <2>2, <2>3 DEF Holder
<1>7. OpenedComplete'
  BY <1>1, <1>4 DEF IInv, OpenedComplete
<1>8. CallsComplete'
  BY <1>1 DEF IInv, CallsComplete, Tabulated, tableVars, callVars
<1>9. Outside'
  BY <1>1, <1>2 DEF Outside, Working
<1>. QED
  BY <1>3, <1>5, <1>6, <1>7, <1>8, <1>9 DEF IInv

LEMMA DlReturnStep ==
  ASSUME IInv, NEW t \in Threads, DlReturn(t)
  PROVE  IInv'
<1>1. /\ dlpc[t] = "allocating" /\ Iterated /\ lock' = Nobody
      /\ dlpc' = [dlpc EXCEPT ![t] = "out"]
      /\ opened' = opened \cup {opening[t]}
      /\ opening' = [opening EXCEPT ![t] = Nobody]
      /\ UNCHANGED <<phase, mapped, todo, range, tableVars, counts, callVars, endVars>>
  BY DEF DlReturn
<1>2. phase = "running" /\ lock = t /\ opening[t] \in mapped
  BY <1>1 DEF IInv, Outside, Working, Holder
<1>3. t # Nobody
  BY ObjectsAssumption DEF ObjectsAssumption
<1>4. Complete(opening[t])
  BY <1>1, <1>2, <1>3, IteratedComplete DEF Working
<1>5. TypeOK'
  BY <1>1, <1>2 DEF IInv, TypeOK, tableVars, callVars, endVars
<1>6. \A q : Complete(q)' <=> Complete(q)
  BY <1>1 DEF Complete, Tabulated, tableVars
<1>7. RangeSound' /\ IterationSound'
  BY <1>1 DEF IterationSound, RangeSound, Iterated
<1>8. Holder'
  <2>1. \A u \in Threads : dlpc'[u] # "out" => u # t /\ dlpc'[u] = dlpc[u]
    BY <1>1 DEF IInv, TypeOK
  <2>2. \A u \in Threads : dlpc'[u] # "allocating"
    BY <1>2, <2>1 DEF IInv, Holder
  <2>3. \A u \in Threads : dlpc'[u] # "out" => opening'[u] \in mapped'
    BY <1>1, <2>1 DEF IInv, TypeOK, Holder
  <2>. QED
    BY <1>1, <1>2, <2>2, <2>3 DEF Holder
<1>9. OpenedComplete'
  BY <1>1, <1>4, <1>6 DEF IInv, OpenedComplete
<1>10. CallsComplete'
  BY <1>1 DEF IInv, CallsComplete, Tabulated, tableVars, callVars
<1>11. Outside'
  BY <1>1, <1>2 DEF Outside, Working
<1>. QED
  BY <1>5, <1>7, <1>8, <1>9, <1>10, <1>11 DEF IInv

LEMMA DlCloseStep ==
  ASSUME IInv, NEW o \in Objects, DlClose(o)
  PROVE  IInv'
<1>1. /\ phase = "running" /\ lock = Nobody
      /\ mapped' = mapped \ {o} /\ opened' = opened \ {o}
      /\ \A t \in Threads : opening[t] # o
      /\ UNCHANGED <<phase, lock, todo, range, opening, dlpc, tableVars, counts, callVars, endVars>>
  BY DEF DlClose
<1>2. TypeOK'
  BY <1>1 DEF IInv, TypeOK, tableVars, callVars, endVars
<1>3. \A q : Complete(q)' <=> Complete(q)
  BY <1>1 DEF Complete, Tabulated, tableVars
<1>4. RangeSound' /\ IterationSound'
  BY <1>1 DEF IInv, IterationSound, RangeSound
<1>5. Holder'
  BY <1>1 DEF IInv, Holder
<1>6. OpenedComplete'
  BY <1>1, <1>3 DEF IInv, OpenedComplete
<1>7. CallsComplete'
  BY <1>1 DEF IInv, CallsComplete, Tabulated, tableVars, callVars
<1>8. Outside'
  BY <1>1 DEF Outside, Working
<1>. QED
  BY <1>2, <1>4, <1>5, <1>6, <1>7, <1>8 DEF IInv

------------------------------------------------------------------------------
(* The end.                                                                 *)

\* After main() the other conjuncts of the invariant are about nothing.
LEMMA EndKeeps ==
  ASSUME IInv, TypeOK', phase' \in {"ending", "done", "unreported"},
         phase' = "ending" => \A t \in Threads : pc[t] = "out",
         lock = Nobody, \A t \in Threads : dlpc[t] = "out",
         UNCHANGED <<dlVars, callVars>>
  PROVE  IInv'
<1>1. UNCHANGED <<mapped, opened, lock, todo, range, opening, dlpc, pc, call>>
  BY DEF dlVars, callVars
<1>2. RangeSound' /\ IterationSound'
  BY <1>1 DEF IInv, RangeSound, IterationSound, Working
<1>3. Holder'
  BY <1>1 DEF IInv, Holder
<1>4. OpenedComplete' /\ CallsComplete' /\ Outside'
  BY <1>1 DEF OpenedComplete, CallsComplete, Outside, Working
<1>. QED
  BY <1>2, <1>3, <1>4 DEF IInv

LEMMA EndStep ==
  ASSUME Joined, IInv, End
  PROVE  IInv'
<1>1. CASE MainReturns
  <2>1. /\ phase = "running" /\ phase' = "ending"
        /\ \A t \in Threads : pc[t] = "out" /\ dlpc[t] = "out"
        /\ UNCHANGED <<dlVars, tableVars, counts, callVars, endVars>>
    BY <1>1 DEF MainReturns
  <2>2. lock = Nobody
    BY <2>1 DEF IInv, Holder, TypeOK
  <2>3. TypeOK'
    BY <2>1 DEF IInv, TypeOK, Phases, dlVars, tableVars, callVars, endVars
  <2>. QED
    BY <2>1, <2>2, <2>3, EndKeeps
<1>2. ASSUME phase = "ending"
      PROVE  lock = Nobody /\ \A t \in Threads : dlpc[t] = "out" /\ pc[t] = "out"
  BY <1>2 DEF IInv, Outside, Working
<1>3. CASE NoMaps
  <2>1. /\ phase = "ending" /\ phase' = "unreported"
        /\ UNCHANGED <<dlVars, tableVars, counts, callVars, endVars>>
    BY <1>3 DEF NoMaps
  <2>2. TypeOK'
    BY <2>1 DEF IInv, TypeOK, Phases, dlVars, tableVars, callVars, endVars
  <2>. QED
    BY <1>2, <2>1, <2>2, EndKeeps
<1>4. CASE EndTable
  <2>1. phase = "ending" /\ UNCHANGED <<dlVars, tableVars, callVars>>
    BY <1>4 DEF EndTable
  <2>2. phase' \in {"ending", "done"}
    BY <1>4, <2>1 DEF EndTable
  <2>3. /\ ending \in Tables /\ report \in [Slots -> Nat] /\ counts \in [Tables -> [Slots -> Nat]]
        /\ counts[0][Unknown] \in Nat /\ counts[ending][Unknown] \in Nat
    BY SlotsAre, TablesAre DEF IInv, TypeOK
  <2>4. counts[0][Unknown] + counts[ending][Unknown] \in Nat
    BY <2>3
  <2>5. counts' \in [Tables -> [Slots -> Nat]] /\ report' \in [Slots -> Nat] /\ ending' \in Tables
    <3>1. CASE ending = 0
      BY <1>4, <2>3, <3>1, SlotsAre DEF EndTable
    <3>2. CASE ending # 0
      <4>1. /\ counts' = [counts EXCEPT ![0][Unknown] = @ + counts[ending][Unknown]]
            /\ ending' = ending - 1 /\ report' = report
        BY <1>4, <3>2 DEF EndTable
      <4>2. counts' \in [Tables -> [Slots -> Nat]]
        BY <4>1, <2>3, <2>4, SlotsAre, TablesAre
      <4>3. ending' \in Tables
        BY <4>1, <2>3, <3>2, SizesAssumption DEF Tables, SizesAssumption
      <4>. QED
        BY <4>1, <4>2, <4>3, <2>3
    <3>. QED
      BY <3>1, <3>2
  <2>6. TypeOK'
    BY <2>1, <2>2, <2>5 DEF IInv, TypeOK, Phases, dlVars, tableVars, callVars
  <2>. QED
    BY <1>2, <2>1, <2>2, <2>6, EndKeeps
<1>5. ASSUME NEW page \in Pages, EndPage(page)
      PROVE  IInv'
  <2>1. /\ phase = "ending" /\ phase' = phase
        /\ pages' = [pages EXCEPT ![ending] = @ \ {page}]
        /\ UNCHANGED <<dlVars, pagesL1, callVars, ending>>
    BY <1>5 DEF EndPage
  <2>2. page \in Slots /\ CountIn0(page) \in Slots /\ 0 \in Tables /\ ending \in Tables
    BY SlotsAre, TablesAre DEF Slots, CountIn0, IInv, TypeOK
  <2>3. counts' \in [Tables -> [Slots -> Nat]]
    <3>1. counts[0][page] \in Nat /\ counts[ending][page] \in Nat /\ counts[0][CountIn0(page)] \in Nat
      BY <2>2 DEF IInv, TypeOK
    <3>2. CASE ending = 0
      BY <1>5, <2>2, <3>2 DEF EndPage, PrintCount, IInv, TypeOK
    <3>3. CASE ending # 0
      <4>1. counts' = [counts EXCEPT ![0][CountIn0(page)] = @ + counts[ending][page],
                                     ![ending][page] = 0]
        BY <1>5, <3>3 DEF EndPage, Hand
      <4>2. counts[0][CountIn0(page)] + counts[ending][page] \in Nat
        BY <3>1
      <4>. HIDE DEF CountIn0
      <4>. QED
        BY <4>1, <4>2, <2>2 DEF IInv, TypeOK
    <3>. QED
      BY <3>2, <3>3
  <2>4. report' \in [Slots -> Nat]
    <3>1. counts[0][page] \in Nat
      BY <2>2 DEF IInv, TypeOK
    <3>2. report' = report \/ report' = [report EXCEPT ![page] = counts[0][page]]
      BY <1>5 DEF EndPage, PrintCount, Hand
    <3>. QED
      BY <2>2, <3>1, <3>2 DEF IInv, TypeOK
  <2>5. TypeOK'
    BY <2>1, <2>3, <2>4 DEF IInv, TypeOK, dlVars, callVars
  <2>. QED
    BY <1>2, <2>1, <2>5, EndKeeps
<1>6. ASSUME NEW h, EndHigh(h)
      PROVE  IInv'
  <2>1. /\ phase = "ending" /\ phase' = phase
        /\ pagesL1' = [pagesL1 EXCEPT ![ending] = @ \ {h}]
        /\ UNCHANGED <<dlVars, pages, counts, callVars, endVars>>
    BY <1>6 DEF EndHigh
  <2>2. TypeOK'
    BY <2>1 DEF IInv, TypeOK, dlVars, callVars, endVars
  <2>. QED
    BY <1>2, <2>1, <2>2, EndKeeps
<1>. QED
  BY <1>1, <1>3, <1>4, <1>5, <1>6 DEF End

LEMMA Stutter == IInv /\ UNCHANGED vars => IInv'
<1>. SUFFICES ASSUME IInv, UNCHANGED vars PROVE IInv'
  OBVIOUS
<1>1. /\ UNCHANGED <<phase, mapped, opened, lock, todo, range, opening, dlpc, pagesL1, pages, counts>>
      /\ UNCHANGED <<pc, call, calls, made, ending, report>>
  BY DEF vars, dlVars, tableVars, callVars, endVars
<1>2. TypeOK'
  BY <1>1 DEF IInv, TypeOK
<1>3. RangeSound' /\ IterationSound' /\ Holder'
  BY <1>1 DEF IInv, RangeSound, IterationSound, Holder, Working, Complete, Tabulated
<1>4. OpenedComplete' /\ CallsComplete' /\ Outside'
  BY <1>1 DEF IInv, OpenedComplete, CallsComplete, Outside, Working, Complete, Tabulated
<1>. QED
  BY <1>2, <1>3, <1>4 DEF IInv

------------------------------------------------------------------------------
\* The invariant is inductive.
THEOREM Inductive ==
  ASSUME Joined
  PROVE  Spec => []IInv
<1>1. IInv /\ [Next]_vars => IInv'
  <2>. SUFFICES ASSUME IInv, [Next]_vars PROVE IInv'
    OBVIOUS
  <2>1. CASE Calls
    <3>1. CASE \E t \in Threads, o \in mapped : \E page \in Segment(o) : Enter(t, o, page)
      BY <3>1, CallStep
    <3>2. CASE \E t \in Threads : GetHigh(t) \/ GetMid(t) \/ Count(t)
      BY <3>2, CallStep
    <3>. QED
      BY <2>1, <3>1, <3>2 DEF Calls
  <2>2. CASE Tabulate
    BY <2>2, NextObjectStep, AllocateHighStep, AllocatePageStep, NextTableStep DEF Tabulate
  <2>3. CASE InitTables \/ InitDone
    BY <2>3, InitTablesStep, InitDoneStep
  <2>4. CASE Dl
    BY <2>4, DlOpenStep, DlIterateStep, DlReturnStep, DlCloseStep DEF Dl
  <2>5. CASE End
    BY <2>5, EndStep
  <2>6. CASE UNCHANGED vars
    BY <2>6, Stutter
  <2>. QED
    BY <2>1, <2>2, <2>3, <2>4, <2>5, <2>6 DEF Next
<1>. QED
  BY <1>1, InitHolds, PTL DEF Spec

\* Every count, page and thread stays in its range, tables and threads of any
\* number: no index that allocate_range(), get_count() or a destructor uses is
\* outside its table.
THEOREM Types ==
  ASSUME Joined
  PROVE  Spec => []TypeOK
<1>1. IInv => TypeOK
  BY DEF IInv
<1>. QED
  BY <1>1, Inductive, PTL

\* A call of a function of an opened object is never counted as unknown, by
\* get_count(), whichever dlopen() fills the tables at the same time.
THEOREM Known ==
  ASSUME Joined
  PROVE  Spec => []OpenedIsKnown
<1>1. IInv => OpenedIsKnown
  BY DEF IInv, OpenedIsKnown, CallsComplete, Outside
<1>. QED
  BY <1>1, Inductive, PTL

------------------------------------------------------------------------------
(* Sums over the tables.                                                    *)

LEMMA TotalIs ==
  ASSUME NEW has \in [Tables -> Nat]
  PROVE  /\ Total(0, has) = has[0]
         /\ \A n \in Tables : Total(n, has) \in Nat /\ (n > 0 => Total(n, has) = Total(n - 1, has) + has[n])
<1>. DEFINE M == NTables - 1
            step == [p \in Nat \X (1 .. M) |-> p[1] + has[p[2]]]
            Solves(g) == g = [i \in Tables |-> IF i = 0 THEN has[0] ELSE g[i - 1] + has[i]]
            upTo == CHOOSE g : Solves(g)
<1>1. M \in Nat /\ Tables = 0 .. M /\ 0 \in Tables
  BY SizesAssumption DEF Tables, SizesAssumption
<1>2. step \in [Nat \X (1 .. M) -> Nat] /\ has[0] \in Nat
  BY <1>1
<1>3. PICK f \in [0 .. M -> Nat] : Accumulates(f, M, has[0], step)
  <2>. HIDE DEF step, M
  <2>. QED
    BY <1>1, <1>2, StepsExist
<1>4. f[0] = has[0] /\ \A n \in 1 .. M : f[n] = f[n - 1] + has[n]
  <2>1. ASSUME NEW n \in 1 .. M PROVE f[n] = f[n - 1] + has[n]
    <3>1. f[n] = step[<<f[n - 1], n>>] /\ n - 1 \in 0 .. M
      <4>. HIDE DEF step, M
      <4>1. f[n] = step[<<f[n - 1], n>>]
        BY <1>3 DEF Accumulates
      <4>2. n - 1 \in 0 .. M
        BY <1>1
      <4>. QED
        BY <4>1, <4>2
    <3>2. <<f[n - 1], n>> \in Nat \X (1 .. M)
      BY <3>1
    <3>. QED
      BY <3>1, <3>2
  <2>. QED
    BY <1>3, <2>1 DEF Accumulates
<1>5. Solves(f)
  <2>1. \A i \in Tables : f[i] = IF i = 0 THEN has[0] ELSE f[i - 1] + has[i]
    BY <1>1, <1>4
  <2>2. f = [i \in Tables |-> f[i]]
    BY <1>1
  <2>. QED
    BY <2>1, <2>2
<1>6. Solves(upTo)
  <2>. HIDE DEF Solves
  <2>. QED
    BY <1>5
<1>7. \A i \in Tables : upTo[i] = IF i = 0 THEN has[0] ELSE upTo[i - 1] + has[i]
  <2>. HIDE DEF upTo
  <2>. QED
    BY <1>6
<1>8. \A n : Total(n, has) = upTo[n]
  BY DEF Total
<1>. HIDE DEF upTo
<1>. DEFINE T == {n \in Tables : upTo[n] \in Nat}
<1>9. 0 .. M \subseteq T
  <2>1. 0 \in T
    BY <1>1, <1>2, <1>7
  <2>2. ASSUME NEW n \in 0 .. M - 1, n \in T PROVE n + 1 \in T
    <3>1. n + 1 \in Tables /\ n + 1 # 0 /\ (n + 1) - 1 = n
      BY <1>1
    <3>2. upTo[n + 1] = upTo[n] + has[n + 1]
      BY <1>7, <3>1
    <3>. QED
      BY <2>2, <3>1, <3>2
  <2>. HIDE DEF T, M
  <2>. QED
    BY <1>1, <2>1, <2>2, InductionUpTo
<1>10. \A n \in Tables : Total(n, has) \in Nat
  BY <1>1, <1>8, <1>9
<1>11. \A n \in Tables : n > 0 => Total(n, has) = Total(n - 1, has) + has[n]
  BY <1>1, <1>7, <1>8
<1>12. Total(0, has) = has[0]
  BY <1>1, <1>7, <1>8
<1>. QED
  BY <1>10, <1>11, <1>12

\* One table's part changes.
LEMMA TotalChanges ==
  ASSUME NEW has \in [Tables -> Nat], NEW has2 \in [Tables -> Nat], NEW k \in Tables,
         \A i \in Tables : i # k => has2[i] = has[i]
  PROVE  \A n \in Tables :
           Total(n, has2) = IF n < k THEN Total(n, has) ELSE Total(n, has) + has2[k] - has[k]
<1>. DEFINE M == NTables - 1
            T == {n \in Tables :
                    Total(n, has2) = IF n < k THEN Total(n, has) ELSE Total(n, has) + has2[k] - has[k]}
<1>1. M \in Nat /\ Tables = 0 .. M /\ 0 \in Tables
  BY SizesAssumption DEF Tables, SizesAssumption
<1>2. 0 \in T
  BY <1>1, TotalIs
<1>3. ASSUME NEW n \in 0 .. M - 1, n \in T PROVE n + 1 \in T
  <2>1. n + 1 \in Tables /\ n + 1 > 0 /\ (n + 1) - 1 = n /\ n \in Tables
    BY <1>1
  <2>2. /\ Total(n + 1, has2) = Total(n, has2) + has2[n + 1]
        /\ Total(n + 1, has) = Total(n, has) + has[n + 1]
        /\ Total(n, has) \in Nat /\ Total(n, has2) \in Nat
        /\ has[n + 1] \in Nat /\ has[k] \in Nat /\ has2[k] \in Nat
    BY <2>1, TotalIs
  <2>3. CASE n + 1 < k
    BY <1>3, <2>1, <2>2, <2>3, <1>1
  <2>4. CASE n + 1 = k
    BY <1>3, <2>1, <2>2, <2>4, <1>1
  <2>5. CASE n + 1 > k
    BY <1>3, <2>1, <2>2, <2>5, <1>1
  <2>. QED
    BY <1>1, <2>1, <2>3, <2>4, <2>5
<1>. HIDE DEF T, M
<1>4. 0 .. M \subseteq T
  BY <1>1, <1>2, <1>3, InductionUpTo
<1>. QED
  BY <1>1, <1>4 DEF T

\* None has any.
LEMMA TotalOfNone ==
  ASSUME NEW has \in [Tables -> Nat], \A i \in Tables : has[i] = 0
  PROVE  \A n \in Tables : Total(n, has) = 0
<1>. DEFINE M == NTables - 1
            T == {n \in Tables : Total(n, has) = 0}
<1>1. M \in Nat /\ Tables = 0 .. M /\ 0 \in Tables
  BY SizesAssumption DEF Tables, SizesAssumption
<1>2. 0 \in T
  BY <1>1, TotalIs
<1>3. ASSUME NEW n \in 0 .. M - 1, n \in T PROVE n + 1 \in T
  <2>1. n + 1 \in Tables /\ n + 1 > 0 /\ (n + 1) - 1 = n
    BY <1>1
  <2>2. Total(n + 1, has) = Total(n, has) + has[n + 1] /\ has[n + 1] = 0
    BY <2>1, TotalIs
  <2>. QED
    BY <1>3, <2>1, <2>2
<1>. HIDE DEF T, M
<1>4. 0 .. M \subseteq T
  BY <1>1, <1>2, <1>3, InductionUpTo
<1>. QED
  BY <1>1, <1>4 DEF T

------------------------------------------------------------------------------
(* That no call is lost: the counts of all tables add up to the calls made.  *)

\* What the tables have for slot s.
Has(s) == [i \in Tables |-> counts[i][s]]

InTable(page, i) == High(page) \in pagesL1[i] /\ page \in pages[i]

\* No call is made before the tables are there.
NoneYet ==
  phase \in {"loading", "init"} =>
    (\A t \in Threads : pc[t] = "out") /\ \A s \in Slots : made[s] = 0

\* Only what table 0's destructor has printed and deleted is in the report.
Unprinted ==
  /\ Working => ending = NTables - 1 /\ \A s \in Slots : report[s] = 0
  /\ phase = "ending" =>
       report[Unknown] = 0 /\ \A s \in Pages : report[s] # 0 => ending = 0 /\ s \notin pages[0]

LiveCounts == Working => \A t \in Threads : pc[t] = "count" => Live(t)

\* Where no page is, nothing is counted.
Zeroed == \A i \in Tables : \A s \in Pages \ pages[i] : counts[i][s] = 0

\* Table 0 has every page that another table has: a destructor finds where to
\* add what its own counted.
Nested ==
  /\ \A i \in Tables : \A p \in pages[i] : High(p) \in pagesL1[i]
  /\ Working \/ ending # 0 => \A i \in Tables : \A p \in pages[i] : InTable(p, 0)

\* It is the first one that allocate_range() fills.
FirstFilled ==
  Working /\ range # NoRange =>
    \A p \in First[range.object] .. Last[range.object] + 1 :
      range.table > 0 \/ p < range.page => InTable(p, 0)

Accounted ==
  /\ phase \notin {"done", "unreported"} =>
       \A s \in Slots : report[s] + Total(ending, Has(s)) = made[s]
  /\ phase = "done" => report = made

LInv == NoneYet /\ Unprinted /\ LiveCounts /\ Zeroed /\ Nested /\ FirstFilled /\ Accounted

LEMMA HasCounts ==
  ASSUME counts \in [Tables -> [Slots -> Nat]], NEW s \in Slots
  PROVE  Has(s) \in [Tables -> Nat] /\ \A i \in Tables : Has(s)[i] = counts[i][s]
BY DEF Has

\* Nothing is counted, printed, allocated or deleted.
LEMMA NothingCounted ==
  ASSUME LInv, phase \in Phases, UNCHANGED <<tableVars, counts, pc, call, made, endVars>>,
         range' = range, Working' => Working, Working => Working' \/ phase' = "ending",
         phase \in {"ending", "done", "unreported"} => phase' = phase,
         phase' \in {"loading", "init"} => phase \in {"loading", "init"}
  PROVE  LInv'
<1>1. UNCHANGED <<pagesL1, pages, counts, pc, call, made, ending, report, range>>
  BY DEF tableVars, endVars
<1>0. /\ phase \in {"loading", "init", "running", "ending", "done", "unreported"}
      /\ phase' = "ending" => phase \in {"loading", "init", "running", "ending"}
      /\ phase' = "done" => phase = "done"
      /\ phase' \notin {"done", "unreported"} => phase \notin {"done", "unreported"}
  BY DEF Working, Phases
<1>2. NoneYet' /\ Unprinted'
  <2>1. NoneYet'
    BY <1>1 DEF LInv, NoneYet
  <2>2. Unprinted'
    BY <1>0, <1>1, SlotsAre DEF LInv, Unprinted, Working, Slots
  <2>. QED
    BY <2>1, <2>2
<1>3. LiveCounts' /\ Zeroed'
  BY <1>1 DEF LInv, LiveCounts, Zeroed, Live
<1>4. Nested' /\ FirstFilled'
  BY <1>1 DEF LInv, Nested, FirstFilled, InTable
<1>5. Accounted'
  BY <1>0, <1>1 DEF LInv, Accounted, Has
<1>. QED
  BY <1>2, <1>3, <1>4, <1>5 DEF LInv

\* A slot of a table counts some more, or some less.
LEMMA CountChanges ==
  ASSUME counts \in [Tables -> [Slots -> Nat]], counts' \in [Tables -> [Slots -> Nat]],
         ending \in Tables, NEW s \in Slots, NEW k \in Tables,
         \A i \in Tables : i # k => counts'[i][s] = counts[i][s]
  PROVE  /\ Total(ending, Has(s)) \in Nat
         /\ counts[k][s] \in Nat /\ counts'[k][s] \in Nat
         /\ Total(ending, Has(s)') =
              IF ending < k THEN Total(ending, Has(s))
                            ELSE Total(ending, Has(s)) + counts'[k][s] - counts[k][s]
<1>1. Has(s) \in [Tables -> Nat] /\ Has(s)' \in [Tables -> Nat]
  BY DEF Has
<1>2. \A i \in Tables : Has(s)[i] = counts[i][s] /\ Has(s)'[i] = counts'[i][s]
  BY DEF Has
<1>. HIDE DEF Has
<1>3. Total(ending, Has(s)) \in Nat
  BY <1>1, TotalIs
<1>4. \A i \in Tables : i # k => Has(s)'[i] = Has(s)[i]
  BY <1>2
<1>5. \A n \in Tables :
        Total(n, Has(s)') = IF n < k THEN Total(n, Has(s)) ELSE Total(n, Has(s)) + Has(s)'[k] - Has(s)[k]
  BY <1>1, <1>4, TotalChanges
<1>6. Total(ending, Has(s)') =
        IF ending < k THEN Total(ending, Has(s)) ELSE Total(ending, Has(s)) + Has(s)'[k] - Has(s)[k]
  BY <1>5
<1>7. Has(s)[k] = counts[k][s] /\ Has(s)'[k] = counts'[k][s]
  BY <1>2
<1>. QED
  BY <1>3, <1>6, <1>7

\* A call, until it is counted.
LEMMA CallAccounts ==
  ASSUME Joined, ~Early, IInv, IInv', LInv, NEW t \in Threads,
         (\E o \in mapped : \E page \in Segment(o) : Enter(t, o, page))
           \/ GetHigh(t) \/ GetMid(t) \/ Count(t)
  PROVE  LInv'
<1>1. UNCHANGED <<phase, dlVars, tableVars, endVars>>
  BY DEF Enter, GetHigh, GetMid, Count
<1>2. UNCHANGED <<range, pagesL1, pages, ending, report>>
  BY <1>1 DEF dlVars, tableVars, endVars
<1>3. phase \notin {"loading", "init"}
  BY DEF LInv, NoneYet, Enter, MayCall, GetHigh, GetMid, Count
<1>4. /\ pc \in [Threads -> {"out", "high", "mid", "count"}]
      /\ call \in [Threads -> [page : Slots, table : Tables, known : BOOLEAN]]
      /\ counts \in [Tables -> [Slots -> Nat]] /\ counts' \in [Tables -> [Slots -> Nat]]
      /\ made \in [Slots -> Nat] /\ ending \in Tables
  BY DEF IInv, TypeOK
<1>5. NoneYet' /\ Unprinted' /\ Nested' /\ FirstFilled'
  BY <1>1, <1>2, <1>3 DEF LInv, NoneYet, Unprinted, Working, Nested, FirstFilled, InTable
<1>6. CASE Count(t)
  <2>. DEFINE c == call[t]
  <2>1. /\ pc[t] = "count" /\ pc' = [pc EXCEPT ![t] = "out"] /\ call' = call
        /\ counts' = IF Live(t) THEN [counts EXCEPT ![c.table][c.page] = @ + 1] ELSE counts
        /\ made' = IF phase \in {"done", "unreported"} THEN made ELSE [made EXCEPT ![c.page] = @ + 1]
    BY <1>6 DEF Count
  <2>2. c.table \in Tables /\ c.page \in Slots
    BY <1>4
  <2>3. LiveCounts'
    BY <1>1, <1>2, <1>4, <2>1 DEF LInv, LiveCounts, Live, Working
  <2>4. Zeroed'
    <3>. SUFFICES ASSUME NEW i \in Tables, NEW s \in Pages, s \notin pages[i] PROVE counts'[i][s] = 0
      BY <1>2 DEF Zeroed
    <3>1. counts[i][s] = 0 /\ s \in Slots
      BY DEF LInv, Zeroed, Slots
    <3>2. Live(t) => ~(i = c.table /\ s = c.page)
      BY SlotsAre DEF Live
    <3>. QED
      BY <1>4, <2>1, <2>2, <3>1, <3>2
  <2>5. Accounted'
    <3>1. CASE phase \in {"done", "unreported"}
      BY <1>1, <1>2, <2>1, <3>1 DEF LInv, Accounted
    <3>2. CASE phase \notin {"done", "unreported"}
      <4>1. phase = "running" /\ ending = NTables - 1 /\ Live(t)
        BY <1>3, <2>1, <3>2 DEF IInv, TypeOK, Phases, Outside, LInv, LiveCounts, Unprinted, Working
      <4>2. \A i \in Tables : ~(ending < i)
        BY <4>1, TableIs, SizesAssumption DEF SizesAssumption
      <4>3. ASSUME NEW s \in Slots PROVE report[s] + Total(ending, Has(s)') = made'[s]
        <5>1. \A i \in Tables : i # c.table => counts'[i][s] = counts[i][s]
          BY <1>4, <2>1, <2>2, <4>1
        <5>2. /\ Total(ending, Has(s)') = Total(ending, Has(s)) + counts'[c.table][s] - counts[c.table][s]
              /\ Total(ending, Has(s)) \in Nat
              /\ counts[c.table][s] \in Nat
          BY <1>4, <2>2, <4>2, <5>1, CountChanges
        <5>3. report[s] + Total(ending, Has(s)) = made[s] /\ report[s] \in Nat
          BY <3>2 DEF LInv, Accounted, IInv, TypeOK
        <5>4. CASE s = c.page
          <6>1. counts'[c.table][s] = counts[c.table][s] + 1 /\ made'[s] = made[s] + 1
            BY <1>4, <2>1, <2>2, <3>2, <4>1, <5>4
          <6>. QED
            BY <5>2, <5>3, <6>1
        <5>5. CASE s # c.page
          <6>1. counts'[c.table][s] = counts[c.table][s] /\ made'[s] = made[s]
            BY <1>4, <2>1, <2>2, <3>2, <4>1, <5>5
          <6>. QED
            BY <5>2, <5>3, <6>1
        <5>. QED
          BY <5>4, <5>5
      <4>. QED
        BY <1>1, <1>2, <4>1, <4>3 DEF Accounted
    <3>. QED
      BY <3>1, <3>2
  <2>. QED
    BY <1>5, <2>3, <2>4, <2>5 DEF LInv
<1>7. CASE ~Count(t)
  <2>1. UNCHANGED <<counts, made>>
    BY <1>7 DEF Enter, GetHigh, GetMid, callVars
  <2>2. Zeroed' /\ Accounted'
    BY <1>1, <1>2, <2>1 DEF LInv, Zeroed, Accounted, Has
  <2>3. LiveCounts'
    <3>1. /\ \A u \in Threads : u # t => pc'[u] = pc[u] /\ call'[u] = call[u]
          /\ pc'[t] = "count" => call'[t].page = Unknown \/ call'[t].page \in pages[call'[t].table]
      <4>1. CASE \E o \in mapped : \E page \in Segment(o) : Enter(t, o, page)
        BY <1>4, <4>1 DEF Enter
      <4>2. CASE GetHigh(t)
        BY <1>4, <4>2 DEF GetHigh
      <4>3. CASE GetMid(t)
        BY <1>4, <4>3 DEF GetMid
      <4>. QED
        BY <1>7, <4>1, <4>2, <4>3
    <3>. QED
      BY <1>1, <1>2, <3>1 DEF LInv, LiveCounts, Live, Working
  <2>. QED
    BY <1>5, <2>2, <2>3 DEF LInv
<1>. QED
  BY <1>6, <1>7

\* A first-level table holds nothing yet.
LEMMA AllocateHighAccounts ==
  ASSUME IInv, LInv, AllocateHigh
  PROVE  LInv'
<1>. DEFINE i == range.table
            high == High(range.page)
<1>1. /\ range # NoRange
      /\ pagesL1' = [pagesL1 EXCEPT ![i] = @ \cup {high}]
      /\ UNCHANGED <<phase, range, pages, counts, pc, call, made, ending, report>>
  BY DEF AllocateHigh, dlVars, callVars, endVars
<1>2. i \in Tables /\ pagesL1 \in [Tables -> SUBSET {High(p) : p \in Pages}]
  BY DEF IInv, TypeOK
<1>3. Working
  BY <1>1 DEF IInv, IterationSound, Outside, AllocateHigh
<1>4. \A k \in Tables : pagesL1[k] \subseteq pagesL1'[k]
  BY <1>1, <1>2
<1>. HIDE DEF i, high
<1>5. NoneYet' /\ Unprinted' /\ Zeroed' /\ Accounted'
  BY <1>1 DEF LInv, NoneYet, Unprinted, Zeroed, Accounted, Has, Working
<1>6. LiveCounts'
  <2>1. \A t \in Threads : call[t].table \in Tables
    BY DEF IInv, TypeOK
  <2>. QED
    BY <1>1, <1>4, <2>1 DEF LInv, LiveCounts, Live, Working, High
<1>7. \A p : InTable(p, 0) => InTable(p, 0)'
  BY <1>1, <1>4, TablesAre DEF InTable, High
<1>8. Nested'
  BY <1>1, <1>4, <1>7 DEF LInv, Nested, High, Working
<1>9. FirstFilled'
  BY <1>1, <1>7 DEF LInv, FirstFilled, Working
<1>. QED
  BY <1>5, <1>6, <1>8, <1>9 DEF LInv

\* The pages of a segment, one after the other: none that is there is reset.
LEMMA AllocateAccounts ==
  ASSUME IInv, LInv, AllocatePage
  PROVE  LInv'
<1>. DEFINE i == range.table
            page == range.page
            o == range.object
<1>1. /\ range # NoRange /\ page <= Last[o] + 1
      /\ High(page) \in pagesL1[i]
      /\ pages' = [pages EXCEPT ![i] = @ \cup {page}]
      /\ counts' = IF page \in pages[i] THEN counts ELSE [counts EXCEPT ![i][page] = 0]
      /\ range' = [range EXCEPT !.page = page + 1]
      /\ UNCHANGED <<phase, mapped, opened, lock, todo, opening, dlpc, pagesL1, callVars, endVars>>
  BY DEF AllocatePage
<1>2. /\ range \in [object : Objects \cup {Nobody}, table : Tables, page : Nat]
      /\ i \in Tables /\ page \in Nat
      /\ pagesL1 \in [Tables -> SUBSET {High(p) : p \in Pages}]
      /\ pages \in [Tables -> SUBSET Pages]
      /\ counts \in [Tables -> [Slots -> Nat]]
  BY DEF IInv, TypeOK
<1>3. Working
  BY <1>1 DEF IInv, IterationSound, Outside
<1>4. o \in Objects /\ First[o] <= page /\ First[o] \in Nat /\ Last[o] \in Nat
  BY <1>1, <1>3, SegmentIs DEF IInv, RangeSound
<1>5. page \in Pages /\ page \in Slots /\ 0 \in Tables
  <2>1. page \in Pages
    BY <1>1, <1>2, <1>4, SegmentsPaged
  <2>. QED
    BY <2>1, TablesAre DEF Slots
<1>6. UNCHANGED <<phase, pc, call, calls, made, ending, report, counts>>
  <2>1. counts' = counts
    <3>1. CASE page \in pages[i]
      BY <1>1, <3>1
    <3>2. CASE page \notin pages[i]
      <4>1. counts[i][page] = 0
        BY <1>2, <1>5, <3>2 DEF LInv, Zeroed
      <4>2. counts' = [counts EXCEPT ![i][page] = 0]
        BY <1>1, <3>2
      <4>3. counts[i] \in [Slots -> Nat] /\ [counts[i] EXCEPT ![page] = 0] = counts[i]
        BY <1>2, <1>5, <4>1
      <4>. QED
        BY <1>2, <4>2, <4>3
    <3>. QED
      BY <3>1, <3>2
  <2>. QED
    BY <1>1, <2>1 DEF callVars, endVars
<1>7. \A k \in Tables :
        /\ pages'[k] = IF k = i THEN pages[k] \cup {page} ELSE pages[k]
        /\ pagesL1'[k] = pagesL1[k] /\ (k = i => High(page) \in pagesL1[k])
  BY <1>1, <1>2
<1>8. NoneYet' /\ Unprinted'
  BY <1>3, <1>6 DEF LInv, NoneYet, Unprinted, Working
<1>9. LiveCounts' /\ Zeroed'
  <2>1. \A t \in Threads : call[t].table \in Tables
    BY DEF IInv, TypeOK
  <2>. QED
    BY <1>3, <1>6, <1>7, <2>1 DEF LInv, LiveCounts, Live, Zeroed, Working
<1>10. \A p : InTable(p, 0) => InTable(p, 0)'
  BY <1>5, <1>7 DEF InTable, High
<1>11. ASSUME NEW p, p = page PROVE InTable(p, 0)'
  <2>1. CASE i = 0
    BY <1>5, <1>7, <1>11, <2>1 DEF InTable, High
  <2>2. CASE i # 0
    <3>1. i > 0 /\ page \in First[o] .. Last[o] + 1
      BY <1>1, <1>2, <1>4, <2>2, TableIs
    <3>2. InTable(p, 0)
      BY <1>1, <1>3, <1>11, <3>1 DEF LInv, FirstFilled
    <3>. QED
      BY <1>10, <3>2
  <2>. QED
    BY <2>1, <2>2
<1>12. Nested'
  <2>1. ASSUME NEW k \in Tables, NEW p \in pages'[k]
        PROVE  High(p) \in pagesL1'[k] /\ InTable(p, 0)'
    <3>1. CASE p \in pages[k]
      BY <1>3, <1>7, <1>10, <3>1 DEF LInv, Nested
    <3>2. CASE p = page /\ k = i
      BY <1>7, <1>11, <3>2
    <3>. QED
      BY <1>7, <2>1, <3>1, <3>2
  <2>. QED
    BY <2>1 DEF Nested, High
<1>13. FirstFilled'
  <2>1. range'.object = o /\ range'.table = i /\ range'.page = page + 1
    BY <1>1, <1>2
  <2>2. ASSUME NEW p \in First[o] .. Last[o] + 1, i > 0 \/ p < page + 1
        PROVE  InTable(p, 0)'
    <3>1. CASE p = page
      BY <1>11, <3>1
    <3>2. CASE p # page
      <4>1. i > 0 \/ p < page
        BY <1>2, <1>4, <2>2, <3>2
      <4>2. InTable(p, 0)
        BY <1>1, <1>3, <4>1 DEF LInv, FirstFilled
      <4>. QED
        BY <1>10, <4>2
    <3>. QED
      BY <3>1, <3>2
  <2>. QED
    BY <2>1, <2>2 DEF FirstFilled
<1>14. Accounted'
  BY <1>3, <1>6 DEF LInv, Accounted, Has
<1>. QED
  BY <1>8, <1>9, <1>12, <1>13, <1>14 DEF LInv

\* The loops over the objects and the tables.
LEMMA LoopAccounts ==
  ASSUME IInv, LInv, NextObject \/ NextTable
  PROVE  LInv'
<1>1. UNCHANGED <<phase, tableVars, counts, callVars, endVars>>
  BY DEF NextObject, NextTable
<1>2. UNCHANGED <<phase, pagesL1, pages, counts, pc, call, made, ending, report>>
  BY <1>1 DEF tableVars, callVars, endVars
<1>3. NoneYet' /\ Unprinted' /\ LiveCounts' /\ Zeroed' /\ Nested' /\ Accounted'
  BY <1>2 DEF LInv, NoneYet, Unprinted, LiveCounts, Live, Zeroed, Nested, InTable, Accounted, Has, Working
<1>4. FirstFilled'
  <2>. SUFFICES ASSUME Working, range' # NoRange,
                       NEW p \in First[range'.object] .. Last[range'.object] + 1,
                       range'.table > 0 \/ p < range'.page
                PROVE  InTable(p, 0)
    BY <1>2 DEF FirstFilled, InTable, High, Working
  <2>1. range \in [object : Objects \cup {Nobody}, table : Tables, page : Nat]
    BY DEF IInv, TypeOK
  <2>2. CASE NextObject
    <3>1. PICK q \in todo : range' = [object |-> q, table |-> 0, page |-> First[q]]
      BY <2>2 DEF NextObject
    <3>2. q \in Objects /\ First[q] \in Nat /\ Last[q] \in Nat
      BY SegmentIs DEF IInv, TypeOK
    <3>. QED
      BY <3>1, <3>2
  <2>3. CASE NextTable
    <3>1. /\ range # NoRange /\ range.page > Last[range.object] + 1
          /\ range' = IF range.table + 1 < NTables
                        THEN [range EXCEPT !.table = @ + 1, !.page = First[range.object]]
                        ELSE NoRange
      BY <2>3 DEF NextTable
    <3>2. range'.object = range.object
      BY <2>1, <3>1
    <3>3. range.object \in Objects /\ First[range.object] \in Nat /\ Last[range.object] \in Nat
      BY <3>1, SegmentIs DEF IInv, RangeSound
    <3>4. p \in First[range.object] .. Last[range.object] + 1 /\ p < range.page
      BY <2>1, <3>1, <3>2, <3>3
    <3>. QED
      BY <3>1, <3>4 DEF LInv, FirstFilled
  <2>. QED
    BY <2>2, <2>3
<1>. QED
  BY <1>3, <1>4 DEF LInv

\* funcount_init(): no call is in the tables yet, none is when they are zeroed.
LEMMA InitTablesAccounts ==
  ASSUME IInv, IInv', LInv, InitTables
  PROVE  LInv'
<1>1. /\ phase = "loading" /\ phase' = "init"
      /\ pagesL1' = [k \in Tables |-> {}] /\ pages' = [k \in Tables |-> {}]
      /\ counts' = [k \in Tables |-> [s \in Slots |-> 0]]
      /\ UNCHANGED <<range, callVars, endVars>> /\ lock = Nobody
  BY DEF InitTables, Iterate
<1>2. UNCHANGED <<pc, call, made, ending, report, range>> /\ range = NoRange
  BY <1>1 DEF callVars, endVars, IInv, IterationSound
<1>3. NoneYet' /\ Unprinted'
  BY <1>1, <1>2 DEF LInv, NoneYet, Unprinted, Working
<1>4. LiveCounts'
  BY <1>1, <1>2 DEF LInv, LiveCounts, NoneYet
<1>5. Zeroed'
  BY <1>1, SlotsAre DEF Zeroed, Slots
<1>6. Nested' /\ FirstFilled'
  BY <1>1, <1>2 DEF Nested, FirstFilled
<1>7. Accounted'
  <2>. SUFFICES ASSUME NEW s \in Slots PROVE report[s] + Total(ending, Has(s)') = made[s]
    BY <1>1, <1>2 DEF Accounted
  <2>1. Has(s)' \in [Tables -> Nat] /\ \A k \in Tables : Has(s)'[k] = 0
    BY <1>1 DEF Has
  <2>2. ending \in Tables
    BY DEF IInv, TypeOK
  <2>3. Total(ending, Has(s)') = 0
    <3>. HIDE DEF Has
    <3>. QED
      BY <2>1, <2>2, TotalOfNone
  <2>4. report[s] = 0 /\ made[s] = 0
    BY <1>1 DEF LInv, Unprinted, NoneYet, Working
  <2>. QED
    BY <2>3, <2>4
<1>. QED
  BY <1>3, <1>4, <1>5, <1>6, <1>7 DEF LInv

\* What the program's objects and its end's beginning do not touch.
LEMMA OthersAccount ==
  ASSUME IInv, LInv,
         \/ InitDone \/ Dl \/ MainReturns \/ NoMaps \/ UNCHANGED vars
  PROVE  LInv'
<1>0. phase \in Phases
  BY DEF IInv, TypeOK
<1>1. /\ UNCHANGED <<tableVars, counts, callVars, endVars, range>>
      /\ \/ phase = "init" /\ phase' = "running"
         \/ phase' = phase
         \/ phase = "running" /\ phase' = "ending"
         \/ phase = "ending" /\ phase' = "unreported"
  BY DEF InitDone, Dl, DlOpen, DlIterate, DlReturn, DlClose, MainReturns, NoMaps, vars, dlVars, Iterate
<1>2. UNCHANGED <<pc, call, made>>
  BY <1>1 DEF callVars
<1>3. CASE ~(phase = "ending" /\ phase' = "unreported")
  BY <1>0, <1>1, <1>2, <1>3, NothingCounted DEF Working
<1>4. CASE phase = "ending" /\ phase' = "unreported"
  <2>1. UNCHANGED <<pagesL1, pages, counts, ending, report, range>>
    BY <1>1 DEF tableVars, endVars
  <2>2. NoneYet' /\ Unprinted' /\ LiveCounts' /\ Zeroed' /\ Nested' /\ FirstFilled' /\ Accounted'
    BY <1>4, <2>1 DEF LInv, NoneYet, Unprinted, LiveCounts, Zeroed, Nested, InTable, FirstFilled, Accounted, Working
  <2>. QED
    BY <2>2 DEF LInv
<1>. QED
  BY <1>1, <1>3, <1>4

------------------------------------------------------------------------------
(* The destructors.                                                         *)

\* The first-level tables go after their pages.
LEMMA EndHighAccounts ==
  ASSUME IInv, LInv, NEW h, EndHigh(h)
  PROVE  LInv'
<1>1. /\ phase = "ending" /\ phase' = phase
      /\ pagesL1' = [pagesL1 EXCEPT ![ending] = @ \ {h}]
      /\ \A q \in pages[ending] : High(q) > h
      /\ UNCHANGED <<pages, counts, ending, report, made, pc, range>>
  BY DEF EndHigh, callVars, endVars, dlVars
<1>2. /\ pagesL1 \in [Tables -> SUBSET {High(p) : p \in Pages}] /\ ending \in Tables
      /\ pages \in [Tables -> SUBSET Pages]
  BY DEF IInv, TypeOK
<1>3. NoneYet' /\ Unprinted' /\ LiveCounts' /\ Zeroed' /\ FirstFilled' /\ Accounted'
  BY <1>1 DEF LInv, NoneYet, Unprinted, LiveCounts, Zeroed, FirstFilled, Accounted, Has, Working
<1>4. \A i \in Tables : pagesL1'[i] = IF i = ending THEN pagesL1[i] \ {h} ELSE pagesL1[i]
  BY <1>1, <1>2
<1>5. ASSUME NEW i \in Tables, NEW p \in pages[i] PROVE High(p) \in pagesL1'[i]
  <2>1. High(p) \in pagesL1[i]
    BY DEF LInv, Nested
  <2>2. i = ending => High(p) > h
    BY <1>1
  <2>3. High(p) > h => High(p) # h
    <3>1. High(p) \in Int
      BY <1>2, SlotsAre, SizesAssumption DEF High, SizesAssumption
    <3>. QED
      BY <3>1
  <2>. QED
    BY <1>4, <2>1, <2>2, <2>3
<1>6. ASSUME ending # 0, NEW i \in Tables, NEW p \in pages[i] PROVE InTable(p, 0)'
  <2>1. InTable(p, 0)
    BY <1>6 DEF LInv, Nested
  <2>. QED
    BY <1>1, <1>4, <1>6, <2>1, TablesAre DEF InTable, High
<1>7. Nested'
  BY <1>1, <1>5, <1>6 DEF Nested, High, Working
<1>. QED
  BY <1>3, <1>7 DEF LInv

\* A page is printed, or added to table 0's, before it goes.
LEMMA EndPageAccounts ==
  ASSUME IInv, IInv', LInv, NEW page \in Pages, EndPage(page)
  PROVE  LInv'
<1>1. /\ phase = "ending" /\ phase' = phase /\ page \in pages[ending]
      /\ IF ending = 0 THEN PrintCount(page) ELSE Hand(page)
      /\ pages' = [pages EXCEPT ![ending] = @ \ {page}]
      /\ UNCHANGED <<pagesL1, ending, made, pc, range>>
  BY DEF EndPage, callVars, dlVars
<1>2. /\ ending \in Tables /\ pages \in [Tables -> SUBSET Pages] /\ 0 \in Tables
      /\ counts \in [Tables -> [Slots -> Nat]] /\ counts' \in [Tables -> [Slots -> Nat]]
      /\ report \in [Slots -> Nat] /\ Pages \subseteq Slots /\ Unknown \in Slots /\ Unknown \notin Pages
      /\ ending \in Nat
  BY TablesAre, SlotsAre DEF IInv, TypeOK, Slots
<1>3. \A i \in Tables : pages'[i] = IF i = ending THEN pages[i] \ {page} ELSE pages[i]
  BY <1>1, <1>2
<1>4. NoneYet' /\ LiveCounts' /\ FirstFilled'
  BY <1>1 DEF NoneYet, LiveCounts, FirstFilled, Working
<1>5. Nested'
  <2>1. ASSUME NEW i \in Tables, NEW p \in pages'[i]
        PROVE  High(p) \in pagesL1[i] /\ (ending # 0 => InTable(p, 0)')
    <3>1. p \in pages[i]
      BY <1>3, <2>1
    <3>2. ending # 0 => InTable(p, 0)
      BY <3>1 DEF LInv, Nested
    <3>. QED
      BY <1>1, <1>2, <1>3, <3>1, <3>2 DEF LInv, Nested, InTable, High
  <2>. QED
    BY <1>1, <2>1 DEF Nested, High, Working
<1>6. CASE ending = 0
  <2>1. report' = [report EXCEPT ![page] = counts[0][page]]
        /\ counts' = [counts EXCEPT ![0][page] = 0]
    BY <1>1, <1>6 DEF PrintCount
  <2>2. /\ \A s \in Slots : report'[s] = IF s = page THEN counts[0][s] ELSE report[s]
        /\ \A i \in Tables, s \in Slots :
             counts'[i][s] = IF i = 0 /\ s = page THEN 0 ELSE counts[i][s]
    BY <1>2, <2>1
  <2>3. Unprinted'
    BY <1>1, <1>2, <1>3, <1>6, <2>2 DEF LInv, Unprinted, Working
  <2>4. Zeroed'
    <3>. SUFFICES ASSUME NEW i \in Tables, NEW s \in Pages, s \notin pages'[i] PROVE counts'[i][s] = 0
      BY DEF Zeroed
    <3>1. counts'[i][s] = IF i = 0 /\ s = page THEN 0 ELSE counts[i][s]
      BY <1>2, <2>2
    <3>2. ~(i = 0 /\ s = page) => counts[i][s] = 0
      BY <1>3, <1>6 DEF LInv, Zeroed
    <3>. QED
      BY <3>1, <3>2
  <2>5. Accounted'
    <3>. SUFFICES ASSUME NEW s \in Slots PROVE report'[s] + Total(ending, Has(s)') = made[s]
      BY <1>1 DEF Accounted
    <3>1. \A i \in Tables : i # 0 => counts'[i][s] = counts[i][s]
      BY <2>2
    <3>2. /\ Total(ending, Has(s)') = Total(ending, Has(s)) + counts'[0][s] - counts[0][s]
          /\ Total(ending, Has(s)) \in Nat /\ counts[0][s] \in Nat
      BY <1>2, <1>6, <3>1, CountChanges
    <3>3. report[s] + Total(ending, Has(s)) = made[s]
      BY <1>1 DEF LInv, Accounted
    <3>4. s = page => report[s] = 0
      BY <1>1, <1>6 DEF LInv, Unprinted
    <3>5. counts'[0][s] = (IF s = page THEN 0 ELSE counts[0][s]) /\ report[s] \in Nat
      BY <1>2, <2>2
    <3>6. CASE s = page
      BY <2>2, <3>2, <3>3, <3>4, <3>5, <3>6
    <3>7. CASE s # page
      BY <2>2, <3>2, <3>3, <3>5, <3>7
    <3>. QED
      BY <3>6, <3>7
  <2>. QED
    BY <1>4, <1>5, <2>3, <2>4, <2>5 DEF LInv
<1>7. CASE ending # 0
  <2>. DEFINE e == ending
  <2>1. CountIn0(page) = page
    <3>1. InTable(page, 0)
      BY <1>1, <1>2, <1>7 DEF LInv, Nested
    <3>. QED
      BY <3>1 DEF CountIn0, InTable
  <2>2. counts' = [counts EXCEPT ![0][page] = @ + counts[e][page], ![e][page] = 0]
        /\ report' = report
    BY <1>1, <1>7, <2>1 DEF Hand
  <2>3. \A i \in Tables, s \in Slots :
          counts'[i][s] = IF s # page THEN counts[i][s]
                          ELSE IF i = e THEN 0
                          ELSE IF i = 0 THEN counts[0][s] + counts[e][s]
                          ELSE counts[i][s]
    BY <1>2, <1>7, <2>2
  <2>4. Unprinted'
    BY <1>1, <1>2, <1>3, <1>7, <2>2 DEF LInv, Unprinted, Working
  <2>5. Zeroed'
    <3>. SUFFICES ASSUME NEW i \in Tables, NEW s \in Pages, s \notin pages'[i] PROVE counts'[i][s] = 0
      BY DEF Zeroed
    <3>1. s \in Slots
      BY <1>2
    <3>2. CASE s = page /\ i = e
      BY <2>3, <3>1, <3>2
    <3>3. CASE s = page /\ i = 0
      <4>1. page \in pages[0]
        BY <1>1, <1>2, <1>7 DEF LInv, Nested, InTable
      <4>. QED
        BY <1>2, <1>3, <1>7, <3>3, <4>1
    <3>4. CASE ~(s = page /\ i \in {0, e})
      <4>1. s \notin pages[i]
        BY <1>3, <3>4
      <4>2. counts'[i][s] = counts[i][s]
        BY <2>3, <3>1, <3>4
      <4>. QED
        BY <4>1, <4>2 DEF LInv, Zeroed
    <3>. QED
      BY <3>2, <3>3, <3>4
  <2>6. Accounted'
    <3>. SUFFICES ASSUME NEW s \in Slots PROVE Total(e, Has(s)') = Total(e, Has(s))
      BY <1>1, <2>2 DEF LInv, Accounted
    <3>1. CASE s # page
      <4>1. Has(s)' = Has(s)
        BY <2>3, <3>1 DEF Has
      <4>. QED
        BY <4>1
    <3>2. CASE s = page
      <4>. DEFINE mid == [i \in Tables |-> IF i = 0 THEN counts[0][s] + counts[e][s] ELSE counts[i][s]]
      <4>0. counts[0][s] \in Nat /\ counts[e][s] \in Nat
        BY <1>2
      <4>1. Has(s) \in [Tables -> Nat] /\ Has(s)' \in [Tables -> Nat] /\ mid \in [Tables -> Nat]
        BY <1>2, <4>0 DEF Has
      <4>2. /\ \A i \in Tables : i # 0 => mid[i] = Has(s)[i]
            /\ \A i \in Tables : i # e => Has(s)'[i] = mid[i]
            /\ mid[0] = counts[0][s] + counts[e][s] /\ Has(s)[0] = counts[0][s]
            /\ mid[e] = counts[e][s] /\ Has(s)'[e] = 0
        BY <1>2, <1>7, <2>3, <3>2 DEF Has
      <4>. HIDE DEF mid, Has
      <4>3. Total(e, mid) = Total(e, Has(s)) + mid[0] - Has(s)[0]
        <5>1. \A n \in Tables :
                Total(n, mid) = IF n < 0 THEN Total(n, Has(s)) ELSE Total(n, Has(s)) + mid[0] - Has(s)[0]
          BY <1>2, <4>1, <4>2, TotalChanges
        <5>. QED
          BY <1>2, <5>1
      <4>4. Total(e, Has(s)') = Total(e, mid) + Has(s)'[e] - mid[e]
        <5>1. \A n \in Tables :
                Total(n, Has(s)') = IF n < e THEN Total(n, mid) ELSE Total(n, mid) + Has(s)'[e] - mid[e]
          BY <1>2, <4>1, <4>2, TotalChanges
        <5>. QED
          BY <1>2, <5>1
      <4>5. Total(e, Has(s)) \in Nat /\ Total(e, mid) \in Nat
        BY <1>2, <4>1, TotalIs
      <4>. QED
        BY <4>0, <4>2, <4>3, <4>4, <4>5
    <3>. QED
      BY <3>1, <3>2
  <2>. QED
    BY <1>4, <1>5, <2>4, <2>5, <2>6 DEF LInv
<1>. QED
  BY <1>6, <1>7

\* The calls to unknown functions, when no page is left.
LEMMA EndTableAccounts ==
  ASSUME IInv, IInv', LInv, EndTable
  PROVE  LInv'
<1>1. /\ phase = "ending" /\ pagesL1[ending] = {}
      /\ UNCHANGED <<pages, pagesL1, made, pc, call, range>>
  BY DEF EndTable, callVars, dlVars, tableVars
<1>2. /\ ending \in Tables /\ pages \in [Tables -> SUBSET Pages] /\ 0 \in Tables
      /\ counts \in [Tables -> [Slots -> Nat]] /\ counts' \in [Tables -> [Slots -> Nat]]
      /\ report \in [Slots -> Nat] /\ made \in [Slots -> Nat]
      /\ Slots = Pages \cup {Unknown} /\ Unknown \notin Pages /\ ending \in Nat
  BY TablesAre, SlotsAre DEF IInv, TypeOK, Slots
<1>3. \A s \in Pages : counts[ending][s] = 0
  BY <1>1, <1>2 DEF LInv, Nested, Zeroed
<1>4. \A s \in Slots : report[s] + Total(ending, Has(s)) = made[s]
  BY <1>1 DEF LInv, Accounted
<1>5. CASE ending = 0
  <2>1. /\ report' = [report EXCEPT ![Unknown] = counts[0][Unknown]]
        /\ phase' = "done" /\ UNCHANGED <<counts, ending>>
    BY <1>5 DEF EndTable
  <2>2. NoneYet' /\ Unprinted' /\ LiveCounts' /\ Zeroed' /\ Nested' /\ FirstFilled'
    BY <1>1, <1>5, <2>1 DEF LInv, NoneYet, Unprinted, LiveCounts, Zeroed, Nested, FirstFilled, Working
  <2>3. report' = made
    <3>1. ASSUME NEW s \in Slots PROVE report'[s] = made[s]
      <4>1. Total(0, Has(s)) = counts[0][s] /\ counts[0][s] \in Nat
        BY <1>2, TotalIs DEF Has
      <4>2. report[s] + counts[0][s] = made[s] /\ report[s] \in Nat
        BY <1>2, <1>4, <1>5, <4>1
      <4>3. s = Unknown => report[s] = 0
        BY <1>1 DEF LInv, Unprinted
      <4>4. s # Unknown => counts[0][s] = 0
        BY <1>2, <1>3, <1>5
      <4>5. report'[s] = IF s = Unknown THEN counts[0][s] ELSE report[s]
        BY <1>2, <2>1
      <4>. QED
        BY <4>1, <4>2, <4>3, <4>4, <4>5
    <3>2. report' \in [Slots -> Nat]
      BY DEF IInv, TypeOK
    <3>. QED
      BY <1>2, <3>1, <3>2
  <2>. QED
    BY <1>1, <2>1, <2>2, <2>3 DEF LInv, Accounted
<1>6. CASE ending # 0
  <2>1. /\ counts' = [counts EXCEPT ![0][Unknown] = @ + counts[ending][Unknown]]
        /\ ending' = ending - 1 /\ UNCHANGED <<phase, report>>
    BY <1>6 DEF EndTable
  <2>2. \A i \in Tables, s \in Slots :
          counts'[i][s] = IF i = 0 /\ s = Unknown THEN counts[0][s] + counts[ending][s] ELSE counts[i][s]
    BY <1>2, <2>1
  <2>3. NoneYet' /\ Unprinted' /\ LiveCounts' /\ Nested' /\ FirstFilled'
    BY <1>1, <1>2, <1>6, <2>1 DEF LInv, NoneYet, Unprinted, LiveCounts, Nested, InTable, FirstFilled, Working
  <2>4. Zeroed'
    BY <1>1, <1>2, <2>2 DEF LInv, Zeroed
  <2>5. Accounted'
    <3>. SUFFICES ASSUME NEW s \in Slots PROVE report[s] + Total(ending - 1, Has(s)') = made[s]
      BY <1>1, <2>1 DEF Accounted
    <3>1. Has(s) \in [Tables -> Nat] /\ Has(s)' \in [Tables -> Nat] /\ ending - 1 \in Tables
          /\ ending > 0
      BY <1>2, <1>6, SizesAssumption DEF Has, Tables, SizesAssumption
    <3>2. /\ \A i \in Tables : i # 0 => Has(s)'[i] = Has(s)[i]
          /\ Has(s)[ending] = counts[ending][s]
          /\ Has(s)[0] = counts[0][s]
          /\ Has(s)'[0] = IF s = Unknown THEN counts[0][s] + counts[ending][s] ELSE counts[0][s]
          /\ counts[0][s] \in Nat /\ counts[ending][s] \in Nat
      BY <1>2, <2>2 DEF Has
    <3>. HIDE DEF Has
    <3>3. Total(ending, Has(s)) = Total(ending - 1, Has(s)) + counts[ending][s]
          /\ Total(ending - 1, Has(s)) \in Nat
      BY <1>2, <3>1, <3>2, TotalIs
    <3>4. Total(ending - 1, Has(s)') = Total(ending - 1, Has(s)) + Has(s)'[0] - Has(s)[0]
      <4>1. \A n \in Tables :
              Total(n, Has(s)') = IF n < 0 THEN Total(n, Has(s)) ELSE Total(n, Has(s)) + Has(s)'[0] - Has(s)[0]
        BY <1>2, <3>1, <3>2, TotalChanges
      <4>. QED
        BY <1>2, <3>1, <4>1
    <3>5. s # Unknown => counts[ending][s] = 0
      BY <1>2, <1>3
    <3>6. Total(ending - 1, Has(s)') = Total(ending, Has(s))
      <4>1. CASE s = Unknown
        BY <3>2, <3>3, <3>4, <4>1
      <4>2. CASE s # Unknown
        BY <3>2, <3>3, <3>4, <3>5, <4>2
      <4>. QED
        BY <4>1, <4>2
    <3>. QED
      BY <1>4, <3>6
  <2>. QED
    BY <2>3, <2>4, <2>5 DEF LInv
<1>. QED
  BY <1>5, <1>6

LEMMA StartAccounts == Init => LInv
<1>. SUFFICES ASSUME Init PROVE LInv
  OBVIOUS
<1>1. NoneYet /\ Unprinted /\ LiveCounts /\ Nested /\ FirstFilled
  BY TablesAre DEF Init, NoneYet, Unprinted, LiveCounts, Nested, FirstFilled, Working
<1>2. Zeroed
  BY DEF Init, Zeroed, Slots
<1>3. Accounted
  <2>. SUFFICES ASSUME NEW s \in Slots PROVE Total(ending, Has(s)) = 0
    BY DEF Init, Accounted
  <2>1. Has(s) \in [Tables -> Nat] /\ \A k \in Tables : Has(s)[k] = 0
    BY DEF Has, Init
  <2>2. ending \in Tables
    BY TablesAre DEF Init
  <2>. HIDE DEF Has
  <2>. QED
    BY <2>1, <2>2, TotalOfNone
<1>. QED
  BY <1>1, <1>2, <1>3 DEF LInv

\* Every call is counted and printed, once and where it was found: through the
\* atomic increments of all threads, the tables that grow meanwhile and the
\* destructors that add table upon table to the first one.
THEOREM AllCallsCounted ==
  ASSUME Joined, ~Early
  PROVE  Spec => []NoCallLost
<1>1. IInv /\ IInv' /\ LInv /\ [Next]_vars => LInv'
  <2>. SUFFICES ASSUME IInv, IInv', LInv, [Next]_vars PROVE LInv'
    OBVIOUS
  <2>1. CASE Calls
    <3>1. CASE \E t \in Threads, o \in mapped : \E page \in Segment(o) : Enter(t, o, page)
      BY <3>1, CallAccounts
    <3>2. CASE \E t \in Threads : GetHigh(t) \/ GetMid(t) \/ Count(t)
      BY <3>2, CallAccounts
    <3>. QED
      BY <2>1, <3>1, <3>2 DEF Calls
  <2>2. CASE Tabulate
    BY <2>2, AllocateHighAccounts, AllocateAccounts, LoopAccounts DEF Tabulate
  <2>3. CASE InitTables
    BY <2>3, InitTablesAccounts
  <2>4. CASE InitDone \/ Dl \/ MainReturns \/ NoMaps \/ UNCHANGED vars
    BY <2>4, OthersAccount
  <2>5. CASE EndTable
    BY <2>5, EndTableAccounts
  <2>6. CASE \E page \in Pages : EndPage(page) \/ EndHigh(High(page))
    BY <2>6, EndPageAccounts, EndHighAccounts
  <2>. QED
    BY <2>1, <2>2, <2>3, <2>4, <2>5, <2>6 DEF Next, End
<1>2. LInv => NoCallLost
  BY DEF LInv, Accounted, NoCallLost, StillCounted, Has
<1>3. Spec => []IInv
  BY Inductive
<1>. QED
  BY <1>1, <1>2, <1>3, StartAccounts, PTL DEF Spec
==============================================================================
