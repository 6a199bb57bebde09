------------------------------ MODULE FunCount ------------------------------
(***************************************************************************)
(* funcount: the counting of function calls by address, in page tables that *)
(* follow the executable segments the process has mapped, from the first    *)
(* constructor to the report that the last destructor prints.              *)
(*                                                                         *)
(* An address is the number of its page (address >> PAGE_BITS); the counts   *)
(* of one page are one count.  An object - the executable, a shared object - *)
(* has one executable segment, the pages First[o] to Last[o].  Several      *)
(* objects may use the same pages, one after the other.                    *)
(***************************************************************************)
EXTENDS Integers, FiniteSets

CONSTANTS
  Threads, Main,  \* the program's threads, the main thread one of them
  Objects,        \* what may be mapped
  Initial,        \* the objects mapped when the program is started
  First, Last,    \* the first and the last page of each object's segment
  Mids,           \* how many pages a first-level table has (PAGE_SIZE)
  NTables,        \* FUNCOUNT_PAGE_TABLES
  Nobody,         \* no holder of a lock, no object
  MaxCalls,       \* bound: how many calls are made
  Early,          \* whether constructors of shared objects the program is
                  \* linked with run before funcount_init() and are traced
  Joined          \* whether the threads are joined before main() returns

ASSUME ObjectsAssumption ==
  /\ Initial \subseteq Objects /\ Nobody \notin Objects /\ Nobody \notin Threads
  /\ First \in [Objects -> Nat] /\ Last \in [Objects -> Nat]
  /\ \A o \in Objects : First[o] <= Last[o]
ASSUME SizesAssumption ==
  /\ Main \in Threads
  /\ Mids \in Nat \ {0} /\ NTables \in Nat \ {0} /\ MaxCalls \in Nat
  /\ Early \in BOOLEAN /\ Joined \in BOOLEAN

Tables == 0 .. NTables - 1

\* Where the counts of a call may go: to a page's, or to `unknown`.
Unknown == -1
Pages   == UNION {First[o] .. Last[o] + 1 : o \in Objects}
Slots   == Pages \cup {Unknown}

VARIABLES
  phase,      \* "loading", "init", "running", "ending", "done" or "unreported"
  mapped,     \* the objects in the address space
  opened,     \* history: those whose opening has returned to the program
  pagesL1,    \* of each table, the first-level tables that exist
  pages,      \* of each table, the pages that exist
  counts,     \* of each table, the counts of each slot
  lock,       \* glibc's lock of the list of objects: who iterates over it
  todo,       \* the objects not iterated over yet
  range,      \* the allocate_range() under way
  pc,         \* where each thread is in __cyg_profile_func_enter
  call,       \* its call: the page, the table, whether the object was opened
  opening,    \* the object each thread is opening
  dlpc,       \* where it is in dlopen
  ending,     \* the table whose destructor runs
  report,     \* the counts printed
  calls,      \* how many calls were made
  made        \* history: how many calls each slot was found for

dlVars    == <<mapped, opened, lock, todo, range, opening, dlpc>>
tableVars == <<pagesL1, pages>>
callVars  == <<pc, call, calls, made>>
endVars   == <<ending, report>>
vars      == <<phase, dlVars, tableVars, counts, callVars, endVars>>

High(page) == page \div Mids

Segment(o) == First[o] .. Last[o]

NoRange == [object |-> Nobody, table |-> 0, page |-> 0]

Init ==
  /\ phase = "loading"
  /\ mapped = Initial /\ opened = {}
  /\ pagesL1 = [i \in Tables |-> {}] /\ pages = [i \in Tables |-> {}]
  /\ counts = [i \in Tables |-> [s \in Slots |-> 0]]
  /\ lock = Nobody /\ todo = {} /\ range = NoRange
  /\ pc = [t \in Threads |-> "out"]
  /\ call = [t \in Threads |-> [page |-> Unknown, table |-> 0, known |-> FALSE]]
  /\ opening = [t \in Threads |-> Nobody]
  /\ dlpc = [t \in Threads |-> "out"]
  /\ ending = NTables - 1
  /\ report = [s \in Slots |-> 0]
  /\ calls = 0
  /\ made = [s \in Slots |-> 0]

------------------------------------------------------------------------------
(* Calls: __cyg_profile_func_enter().                                       *)

\* When thread t runs instrumented code: constructors before funcount_init();
\* the program; what main() has started and not joined; destructors that come
\* after funcount's.
MayCall(t) ==
  /\ dlpc[t] \in {"out", "constructors"}
  /\ \/ phase = "loading" /\ Early /\ t = Main
     \/ phase = "running"
     \/ phase = "ending" /\ ~Joined /\ t # Main
     \/ phase \in {"done", "unreported"} /\ (t = Main \/ ~Joined)

\* A function on a page of object o is called.  The core the thread runs on
\* says which table to use; it need not stay there.
Enter(t, o, page) ==
  /\ MayCall(t)
  /\ pc[t] = "out"
  /\ calls < MaxCalls
  /\ calls' = calls + 1
  /\ \E i \in Tables :
       call' = [call EXCEPT ![t] = [page |-> page, table |-> i, known |-> o \in opened]]
  /\ pc' = [pc EXCEPT ![t] = "high"]
  /\ UNCHANGED <<phase, dlVars, tableVars, counts, made, endVars>>

\* get_count(): the first level,
GetHigh(t) ==
  LET c == call[t]
      present == High(c.page) \in pagesL1[c.table]
  IN  /\ pc[t] = "high"
      /\ pc' = [pc EXCEPT ![t] = IF present THEN "mid" ELSE "count"]
      /\ call' = IF present THEN call ELSE [call EXCEPT ![t].page = Unknown]
      /\ UNCHANGED <<phase, dlVars, tableVars, counts, calls, made, endVars>>

\* the second level,
GetMid(t) ==
  LET c == call[t] IN
      /\ pc[t] = "mid"
      /\ pc' = [pc EXCEPT ![t] = "count"]
      /\ call' = IF c.page \in pages[c.table] THEN call
                                              ELSE [call EXCEPT ![t].page = Unknown]
      /\ UNCHANGED <<phase, dlVars, tableVars, counts, calls, made, endVars>>

\* Whether the count that thread t was given is one that exists.
Live(t) == call[t].page = Unknown \/ call[t].page \in pages[call[t].table]

\* and the atomic increment, which ruins some other memory when the page has
\* been deleted.
Count(t) ==
  LET c == call[t] IN
  /\ pc[t] = "count"
  /\ pc' = [pc EXCEPT ![t] = "out"]
  /\ counts' = IF Live(t) THEN [counts EXCEPT ![c.table][c.page] = @ + 1] ELSE counts
  /\ made' = IF phase \in {"done", "unreported"} THEN made ELSE [made EXCEPT ![c.page] = @ + 1]
  /\ UNCHANGED <<phase, dlVars, tableVars, call, calls, endVars>>

------------------------------------------------------------------------------
(* dl_iterate_phdr(phdr_callback), which glibc serialises with a lock that   *)
(* also keeps objects from coming and going.                                *)

Iterate == lock = Nobody /\ todo' = mapped

\* The callback for the next object, its executable segment, the first table:
\* allocate_range() goes page by page,
NextObject ==
  /\ lock # Nobody /\ range = NoRange
  /\ \E o \in todo :
       /\ todo' = todo \ {o}
       /\ range' = [object |-> o, table |-> 0, page |-> First[o]]
  /\ UNCHANGED <<phase, mapped, opened, lock, opening, dlpc, tableVars, counts, callVars, endVars>>

\* up to and with the page after the segment's end, and makes what is missing,
\* the first-level table
AllocateHigh ==
  LET i == range.table
      page == range.page
  IN  /\ range # NoRange /\ page <= Last[range.object] + 1
      /\ High(page) \notin pagesL1[i]
      /\ pagesL1' = [pagesL1 EXCEPT ![i] = @ \cup {High(page)}]
      /\ UNCHANGED <<phase, dlVars, pages, counts, callVars, endVars>>

\* A mutant of AllocatePage: it does not look whether the page is there.
AllocateAnew ==
  LET i == range.table
      page == range.page
  IN  /\ range # NoRange /\ page <= Last[range.object] + 1
      /\ High(page) \in pagesL1[i]
      /\ pages' = [pages EXCEPT ![i] = @ \cup {page}]
      /\ counts' = [counts EXCEPT ![i][page] = 0]
      /\ range' = [range EXCEPT !.page = page + 1]
      /\ UNCHANGED <<phase, mapped, opened, lock, todo, opening, dlpc, pagesL1, callVars, endVars>>

\* and the page in it;
AllocatePage ==
  LET i == range.table
      page == range.page
  IN  /\ range # NoRange /\ page <= Last[range.object] + 1
      /\ High(page) \in pagesL1[i]
      /\ pages' = [pages EXCEPT ![i] = @ \cup {page}]
      /\ counts' = IF page \in pages[i] THEN counts ELSE [counts EXCEPT ![i][page] = 0]
      /\ range' = [range EXCEPT !.page = page + 1]
      /\ UNCHANGED <<phase, mapped, opened, lock, todo, opening, dlpc, pagesL1, callVars, endVars>>

\* then the same in the next table.
NextTable ==
  /\ range # NoRange /\ range.page > Last[range.object] + 1
  /\ range' = IF range.table + 1 < NTables
                THEN [range EXCEPT !.table = @ + 1, !.page = First[range.object]]
                ELSE NoRange
  /\ UNCHANGED <<phase, mapped, opened, lock, todo, opening, dlpc, tableVars, counts,
                 callVars, endVars>>

Iterated == todo = {} /\ range = NoRange

------------------------------------------------------------------------------
(* The start of the program: funcount_init().                               *)

\* The tables are zeroed, `unknown` too, and filled with what is mapped.
InitTables ==
  /\ phase = "loading" /\ pc[Main] = "out"
  /\ phase' = "init"
  /\ pagesL1' = [i \in Tables |-> {}] /\ pages' = [i \in Tables |-> {}]
  /\ counts' = [i \in Tables |-> [s \in Slots |-> 0]]
  /\ Iterate /\ lock' = Main
  /\ UNCHANGED <<mapped, opened, range, opening, dlpc, callVars, endVars>>

InitDone ==
  /\ phase = "init" /\ Iterated
  /\ phase' = "running"
  /\ opened' = mapped
  /\ lock' = Nobody
  /\ UNCHANGED <<mapped, todo, range, opening, dlpc, tableVars, counts, callVars, endVars>>

------------------------------------------------------------------------------
(* dlopen() and dlmopen(), and dlclose(), which funcount does not see.       *)

\* The original dlopen maps the object, unless it is mapped,
DlOpen(t, o) ==
  /\ phase = "running"
  /\ pc[t] = "out" /\ dlpc[t] = "out"
  /\ lock = Nobody
  /\ \A q \in mapped \ {o} : Segment(q) \cap Segment(o) = {}
  /\ mapped' = mapped \cup {o}
  /\ opening' = [opening EXCEPT ![t] = o]
  /\ dlpc' = [dlpc EXCEPT ![t] = "constructors"]
  /\ UNCHANGED <<phase, opened, lock, todo, range, tableVars, counts, callVars, endVars>>

\* and runs its constructors; then the tables are updated,
DlIterate(t) ==
  /\ dlpc[t] = "constructors" /\ pc[t] = "out"
  /\ Iterate /\ lock' = t
  /\ dlpc' = [dlpc EXCEPT ![t] = "allocating"]
  /\ UNCHANGED <<phase, mapped, opened, range, opening, tableVars, counts, callVars, endVars>>

\* A mutant of DlReturn: it need not wait for its own iteration to end.
DlReturnAtOnce(t) ==
  /\ dlpc[t] = "allocating"
  /\ dlpc' = [dlpc EXCEPT ![t] = "out"]
  /\ opened' = opened \cup ({opening[t]} \cap mapped)
  /\ opening' = [opening EXCEPT ![t] = Nobody]
  /\ lock' = IF Iterated THEN Nobody ELSE lock
  /\ UNCHANGED <<phase, mapped, todo, range, tableVars, counts, callVars, endVars>>

\* and the program gets the object.
DlReturn(t) ==
  /\ dlpc[t] = "allocating" /\ Iterated
  /\ dlpc' = [dlpc EXCEPT ![t] = "out"]
  /\ opened' = opened \cup {opening[t]}
  /\ opening' = [opening EXCEPT ![t] = Nobody]
  /\ lock' = Nobody
  /\ UNCHANGED <<phase, mapped, todo, range, tableVars, counts, callVars, endVars>>

\* The program closes what it does not use and nobody opens: it goes, its
\* pages in the tables stay.
DlClose(o) ==
  /\ phase = "running" /\ lock = Nobody
  /\ o \in opened \ Initial
  /\ \A t \in Threads : opening[t] # o /\ (pc[t] # "out" => call[t].page \notin Segment(o))
  /\ mapped' = mapped \ {o} /\ opened' = opened \ {o}
  /\ UNCHANGED <<phase, lock, todo, range, opening, dlpc, tableVars, counts, callVars, endVars>>

------------------------------------------------------------------------------
(* The end: ~CountsPagesL2(), of the last table first.                      *)

MainReturns ==
  /\ phase = "running"
  /\ pc[Main] = "out" /\ dlpc[Main] = "out"
  /\ Joined => \A t \in Threads : pc[t] = "out" /\ dlpc[t] = "out"
  /\ phase' = "ending"
  /\ UNCHANGED <<dlVars, tableVars, counts, callVars, endVars>>

\* Table 0's cannot find out what is mapped and gives up.
NoMaps ==
  /\ phase = "ending" /\ ending = 0 /\ report = [s \in Slots |-> 0]
  /\ phase' = "unreported"
  /\ UNCHANGED <<dlVars, tableVars, counts, callVars, endVars>>

\* last_page_tab->get_count(): the count in table 0 for a page.
CountIn0(page) == IF High(page) \in pagesL1[0] /\ page \in pages[0] THEN page ELSE Unknown

\* What a page counted is added to table 0,
Hand(page) ==
  /\ counts' = [counts EXCEPT ![0][CountIn0(page)] = @ + counts[ending][page],
                              ![ending][page] = 0]
  /\ UNCHANGED report

\* or, by table 0's destructor, printed,
PrintCount(page) ==
  /\ report' = [report EXCEPT ![page] = counts[0][page]]
  /\ counts' = [counts EXCEPT ![0][page] = 0]

\* before the page is deleted.
EndPage(page) ==
  /\ phase = "ending"
  /\ page \in pages[ending]
  /\ \A q \in pages[ending] : page <= q
  /\ IF ending = 0 THEN PrintCount(page) ELSE Hand(page)
  /\ pages' = [pages EXCEPT ![ending] = @ \ {page}]
  /\ UNCHANGED <<phase, dlVars, pagesL1, callVars, ending>>

\* A first-level table is deleted after its pages.
EndHigh(h) ==
  /\ phase = "ending"
  /\ h \in pagesL1[ending]
  /\ \A q \in pages[ending] : High(q) > h
  /\ pagesL1' = [pagesL1 EXCEPT ![ending] = @ \ {h}]
  /\ UNCHANGED <<phase, dlVars, pages, counts, callVars, endVars>>

\* The calls to unknown functions come last.
EndTable ==
  /\ phase = "ending" /\ pagesL1[ending] = {}
  /\ IF ending = 0
       THEN /\ report' = [report EXCEPT ![Unknown] = counts[0][Unknown]]
            /\ phase' = "done"
            /\ UNCHANGED <<counts, ending>>
       ELSE /\ counts' = [counts EXCEPT ![0][Unknown] = @ + counts[ending][Unknown]]
            /\ ending' = ending - 1
            /\ UNCHANGED <<phase, report>>
  /\ UNCHANGED <<dlVars, tableVars, callVars>>

------------------------------------------------------------------------------
Calls ==
  \/ \E t \in Threads, o \in mapped : \E page \in Segment(o) : Enter(t, o, page)
  \/ \E t \in Threads : GetHigh(t) \/ GetMid(t) \/ Count(t)

Tabulate == NextObject \/ AllocateHigh \/ AllocatePage \/ NextTable

Dl ==
  \/ \E t \in Threads, o \in Objects : DlOpen(t, o)
  \/ \E t \in Threads : DlIterate(t) \/ DlReturn(t)
  \/ \E o \in Objects : DlClose(o)

End ==
  \/ MainReturns \/ NoMaps \/ EndTable
  \/ \E page \in Pages : EndPage(page) \/ EndHigh(High(page))

Next == Calls \/ InitTables \/ InitDone \/ Tabulate \/ Dl \/ End

Spec == Init /\ [][Next]_vars

------------------------------------------------------------------------------
(* What is promised.                                                        *)

Phases == {"loading", "init", "running", "ending", "done", "unreported"}

\* Every variable stays in the set of values the code can give it.
TypeOK ==
  /\ phase \in Phases
  /\ mapped \subseteq Objects /\ opened \subseteq Objects
  /\ pagesL1 \in [Tables -> SUBSET {High(page) : page \in Pages}] /\ pages \in [Tables -> SUBSET Pages]
  /\ counts \in [Tables -> [Slots -> Nat]]
  /\ lock \in Threads \cup {Nobody}
  /\ todo \subseteq Objects
  /\ range \in [object : Objects \cup {Nobody}, table : Tables, page : Nat]
  /\ pc \in [Threads -> {"out", "high", "mid", "count"}]
  /\ call \in [Threads -> [page : Slots, table : Tables, known : BOOLEAN]]
  /\ opening \in [Threads -> Objects \cup {Nobody}]
  /\ dlpc \in [Threads -> {"out", "constructors", "allocating"}]
  /\ ending \in Tables
  /\ report \in [Slots -> Nat]
  /\ calls \in Nat
  /\ made \in [Slots -> Nat]

\* "nothing that's traced is left uncounted" (README.md, line 235): a call of a
\* function in an object that the program was given by dlopen(), or was linked
\* with, is never counted as unknown, in whichever table.
OpenedIsKnown ==
  phase \in {"running", "ending"} =>
    \A t \in Threads : call[t].known /\ pc[t] = "count" => call[t].page # Unknown

\* No count is incremented after its page was deleted.
NoStaleCount == \A t \in Threads : pc[t] = "count" => Live(t)

\* The sum of what the tables up to the nth have.
Total(n, has) ==
  LET upTo[i \in Tables] == IF i = 0 THEN has[0] ELSE upTo[i - 1] + has[i] IN upTo[n]

\* Every call that was made, and counted, is somewhere: printed or in a table
\* whose destructor has not run to its end.  "this counts function calls in
\* executable segments not mapped at the time" (funcount.cpp, line 56): those
\* counted as unknown, too.
StillCounted(s) == Total(ending, [i \in Tables |-> counts[i][s]])

NoCallLost ==
  /\ phase \notin {"done", "unreported"} =>
       \A s \in Slots : report[s] + StillCounted(s) = made[s]
  /\ phase = "done" => report = made
=============================================================================
