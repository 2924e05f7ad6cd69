--------------------------- MODULE GenerationProofs ---------------------------
(***************************************************************************)
(* A generation run never has two candidates of one pair, links duplicates *)
(* to the earliest candidate with their code, implements RunDirectory, and *)
(* is valid once it is completed: for any number of pairs, codes,          *)
(* attempts, invocations and faults.                                       *)
(*                                                                         *)
(* What the process read of candidates.jsonl when it began (existing and   *)
(* index) stays the truth about the file, because the loop updates both    *)
(* with every line, nothing else writes while it runs, and a fragment left *)
(* by an append that was cut short ends the process.  ValidInv adds what   *)
(* was written from it: the prompts, and the statistics a completed run is *)
(* left with.                                                              *)
(***************************************************************************)
EXTENDS RunValidation, SequenceTheorems, FiniteSetTheorems, WellFoundedInduction, TLAPS

CandidateLine == [slot : Slots, code : Codes, duplicate_of : Slots \cup {0}]

FilesTyped ==
  /\ candidates \in [there : BOOLEAN, lines : Seq(CandidateLine), torn : BOOLEAN]
  /\ failures \in [there : BOOLEAN, lines : SUBSET (Slots \cup {Broken}), torn : BOOLEAN]
  /\ status \in {"none", "created", "running", "interrupted", "failed", "completed"}

Running == {"loading", "loop", "infer", "interrupting", "broken", "aborting", "settling"}
Places  == Running \cup {"idle", "starting", "resuming", "counting"}

ProcTyped ==
  proc \in [pc : Places, existing : SUBSET Slots,
            index : [Problems -> [Codes -> Slots \cup {0}]],
            cur : Nat, attempt : Nat, complete : BOOLEAN]

\* The lines of L with this problem and code, and the slot of the first of them.
Hits(L, q, c) == {i \in 1..Len(L) : L[i].code = c /\ ProblemOf[L[i].slot] = q}

First(L, q, c, v) ==
  IF Hits(L, q, c) = {} THEN v = 0
  ELSE \E i \in Hits(L, q, c) : (\A j \in Hits(L, q, c) : i <= j) /\ v = L[i].slot

EarlierHits(L, i) == {j \in 1..(i - 1) : /\ L[j].code = L[i].code
                                         /\ ProblemOf[L[j].slot] = ProblemOf[L[i].slot]}

\* LinksToEarliest, whether the file can be read or not.
LinkIsFirst(L, i) ==
  IF EarlierHits(L, i) = {} THEN L[i].duplicate_of = 0
  ELSE \E j \in EarlierHits(L, i) : /\ \A k \in EarlierHits(L, i) : j <= k
                                    /\ L[i].duplicate_of = L[j].slot

Linked(L) == \A i \in 1..Len(L) : LinkIsFirst(L, i)
Single(L) == \A i, j \in 1..Len(L) : L[i].slot = L[j].slot => i = j
SlotsOf(L) == {L[i].slot : i \in 1..Len(L)}

Recorded == Slotted \cup Failed

\* What the process knows.
Aware ==
  /\ proc.pc \in {"starting", "resuming"} => status \notin {"none", "completed"}
  /\ proc.pc \in Running => status = "running"
  /\ proc.pc \in {"loop", "infer"} =>
       /\ ~candidates.torn
       /\ proc.existing = Slotted
       /\ \A q \in Problems, c \in Codes : First(candidates.lines, q, c, proc.index[q][c])
  /\ proc.pc = "infer" => proc.cur \in Slots \ Slotted
  /\ proc.pc = "settling" /\ proc.complete => Recorded = Slots

IInv ==
  /\ FilesTyped /\ ProcTyped
  /\ Single(candidates.lines) /\ Linked(candidates.lines)
  /\ Aware

---------------------------------------------------------------------------

LEMMA SlotNumbers == Slots \subseteq Nat /\ 0 \notin Slots /\ IsFiniteSet(Slots)
BY SlotsAssumption, FS_CardinalityType

\* Lines that are candidates: nothing was ever glued to a fragment.
LEMMA LinesAreCandidates ==
  ASSUME NEW L \in Seq(CandidateLine)
  PROVE  /\ Len(L) \in Nat
         /\ \A i \in 1..Len(L) : L[i] \in CandidateLine /\ L[i] # Broken
         /\ {c.slot : c \in {L[i] : i \in 1..Len(L)} \ {Broken}} = SlotsOf(L)
         /\ SlotsOf(L) \subseteq Slots
<1>1. Len(L) \in Nat /\ \A i \in 1..Len(L) : L[i] \in CandidateLine
  BY ElementOfSeq, LenProperties
<1>2. \A i \in 1..Len(L) : L[i] # Broken
  BY <1>1, BrokenAssumption DEF CandidateLine
<1>3. {c.slot : c \in {L[i] : i \in 1..Len(L)} \ {Broken}} = SlotsOf(L)
  BY <1>2 DEF SlotsOf
<1>4. SlotsOf(L) \subseteq Slots
  BY <1>1 DEF CandidateLine, SlotsOf
<1>5. QED BY <1>1, <1>2, <1>3, <1>4

LEMMA SlottedAreSlots ==
  ASSUME FilesTyped
  PROVE  Slotted = SlotsOf(candidates.lines) /\ Slotted \subseteq Slots
BY LinesAreCandidates DEF FilesTyped, Slotted, Saved

LEMMA LeastNumber ==
  ASSUME NEW T \in SUBSET Nat, T # {}
  PROVE  \E x \in T : \A y \in T : x <= y
<1> DEFINE R == OpToRel(<, Nat)
<1>1. \E x \in T : \A y \in T : <<y, x>> \notin R
  BY NatLessThanWellFounded, WFMin
<1>2. \A x, y \in Nat : y < x => <<y, x>> \in R
  BY DEF OpToRel
<1> HIDE DEF R
<1>3. PICK x \in T : \A y \in T : <<y, x>> \notin R
  BY <1>1
<1>4. ASSUME NEW y \in T PROVE x <= y
  <2>1. x \in Nat /\ y \in Nat /\ ~(y < x)
    BY <1>2, <1>3
  <2>2. QED BY <2>1
<1>5. QED BY <1>4

LEMMA EarliestIsFirst ==
  ASSUME FilesTyped, NEW q \in Problems, NEW c \in Codes
  PROVE  First(candidates.lines, q, c, Earliest(q, c)) /\ Earliest(q, c) \in Slots \cup {0}
<1>1. CASE Hits(candidates.lines, q, c) = {}
  BY <1>1 DEF First, Earliest, Hits
<1>2. CASE Hits(candidates.lines, q, c) # {}
  <2>1. PICK n \in Hits(candidates.lines, q, c) : \A j \in Hits(candidates.lines, q, c) : n <= j
    <3>1. Hits(candidates.lines, q, c) \in SUBSET Nat
      BY LinesAreCandidates DEF FilesTyped, Hits
    <3>2. QED BY <1>2, <3>1, LeastNumber
  <2> DEFINE k == CHOOSE i \in Hits(candidates.lines, q, c) : \A j \in Hits(candidates.lines, q, c) : i <= j
  <2>2. k \in Hits(candidates.lines, q, c) /\ \A j \in Hits(candidates.lines, q, c) : k <= j
    BY <2>1
  <2>3. Earliest(q, c) = candidates.lines[k].slot
    BY <1>2 DEF Earliest, Hits
  <2>4. candidates.lines[k].slot \in Slots
    BY <2>2, LinesAreCandidates DEF FilesTyped, Hits, CandidateLine
  <2>5. QED BY <1>2, <2>2, <2>3, <2>4 DEF First
<1>3. QED BY <1>1, <1>2

\* One line more, as the loop appends it.
LEMMA NewLine ==
  ASSUME NEW L \in Seq(CandidateLine), Single(L), Linked(L),
         NEW line \in CandidateLine, line.slot \notin SlotsOf(L),
         First(L, ProblemOf[line.slot], line.code, line.duplicate_of),
         NEW K, K = Append(L, line)
  PROVE  /\ K \in Seq(CandidateLine)
         /\ SlotsOf(K) = SlotsOf(L) \cup {line.slot}
         /\ Single(K) /\ Linked(K)
         /\ \A q, d, u :
              First(L, q, d, u) =>
                First(K, q, d, IF q = ProblemOf[line.slot] /\ d = line.code /\ u = 0
                               THEN line.slot ELSE u)
<1>1. K \in Seq(CandidateLine)
  BY AppendProperties
<1>2. PICK n \in Nat : n = Len(L)
  BY LenProperties
<1>3. /\ Len(K) = n + 1
      /\ \A i \in 1..n : K[i] = L[i] /\ L[i].slot \in Slots
      /\ K[n + 1] = line
      /\ \A i \in 1..(n + 1) : i \in 1..n \/ i = n + 1
      /\ 1..n \subseteq 1..(n + 1) /\ n + 1 \in 1..(n + 1) /\ n + 1 \notin 1..n
  <2>1. Len(K) = n + 1 /\ (\A i \in 1..n : K[i] = L[i]) /\ K[n + 1] = line
    BY <1>2, AppendProperties
  <2>2. \A i \in 1..n : L[i].slot \in Slots
    <3>1. ASSUME NEW i \in 1..n PROVE L[i] \in CandidateLine
      BY <1>2, ElementOfSeq
    <3>2. QED BY <3>1 DEF CandidateLine
  <2>3. QED BY <2>1, <2>2
<1>4. SlotsOf(K) = SlotsOf(L) \cup {line.slot}
  BY <1>2, <1>3 DEF SlotsOf
<1>5. Single(K)
  <2>1. \A i \in 1..n : L[i].slot # line.slot
    BY <1>2 DEF SlotsOf
  <2>2. QED BY <1>2, <1>3, <2>1 DEF Single
<1>6. EarlierHits(K, n + 1) = Hits(L, ProblemOf[line.slot], line.code)
  BY <1>2, <1>3 DEF EarlierHits, Hits
<1>7. Linked(K)
  <2>1. ASSUME NEW i \in 1..n PROVE LinkIsFirst(K, i)
    <3>1. \A j \in 1..(i - 1) : j \in 1..n
      OBVIOUS
    <3>2. EarlierHits(K, i) = EarlierHits(L, i) /\ EarlierHits(L, i) \subseteq 1..n
      BY <1>3, <3>1 DEF EarlierHits
    <3>3. LinkIsFirst(L, i)
      BY <1>2 DEF Linked
    <3>4. QED BY <1>3, <3>2, <3>3 DEF LinkIsFirst
  <2>2. LinkIsFirst(K, n + 1)
    <3>1. Hits(L, ProblemOf[line.slot], line.code) \subseteq 1..n
      BY <1>2 DEF Hits
    <3>2. QED BY <1>3, <1>6, <3>1 DEF First, LinkIsFirst
  <2>3. QED BY <1>3, <2>1, <2>2 DEF Linked
<1>8. ASSUME NEW q, NEW d, NEW u, First(L, q, d, u)
      PROVE  First(K, q, d, IF q = ProblemOf[line.slot] /\ d = line.code /\ u = 0
                            THEN line.slot ELSE u)
  <2>1. Hits(L, q, d) \subseteq 1..n
    BY <1>2 DEF Hits
  <2>2. CASE q = ProblemOf[line.slot] /\ d = line.code
    <3>1. Hits(K, q, d) = Hits(L, q, d) \cup {n + 1}
      BY <1>2, <1>3, <2>2 DEF Hits
    <3>2. CASE Hits(L, q, d) = {}
      BY <1>3, <1>8, <2>2, <3>1, <3>2 DEF First
    <3>3. CASE Hits(L, q, d) # {}
      <4>1. PICK i \in Hits(L, q, d) : (\A j \in Hits(L, q, d) : i <= j) /\ u = L[i].slot
        BY <1>8, <3>3 DEF First
      <4>2. u # 0
        BY <1>3, <2>1, <4>1, SlotNumbers
      <4>3. \A j \in Hits(K, q, d) : i <= j
        BY <2>1, <3>1, <4>1
      <4>4. QED BY <1>3, <2>1, <3>1, <4>1, <4>2, <4>3 DEF First
    <3>4. QED BY <3>2, <3>3
  <2>3. CASE ~(q = ProblemOf[line.slot] /\ d = line.code)
    <3>1. Hits(K, q, d) = Hits(L, q, d)
      BY <1>2, <1>3, <2>3 DEF Hits
    <3>2. QED BY <1>3, <1>8, <2>1, <2>3, <3>1 DEF First
  <2>4. QED BY <2>2, <2>3
<1>9. QED BY <1>1, <1>4, <1>5, <1>7, <1>8

---------------------------------------------------------------------------
(* Steps, and what each is to RunDirectory. *)

Phase == IF status = "none" THEN "absent" ELSE IF status = "completed" THEN "settled" ELSE "open"

Opens   == Phase = "absent" /\ Phase' = "open" /\ UNCHANGED Recorded
Records == /\ Phase = "open" /\ Phase' = "open"
           /\ \E s \in Slots \ Recorded : Recorded' = Recorded \cup {s}
Settles == Phase = "open" /\ Phase' = "settled" /\ Recorded = Slots /\ UNCHANGED Recorded

Kind == UNCHANGED <<Phase, Recorded>> \/ Opens \/ Records \/ Settles

\* The lines of both files, whatever becomes of their tails.
SameLines == UNCHANGED <<candidates.lines, failures.lines>>

LEMMA SameRecords ==
  ASSUME IInv, SameLines
  PROVE  /\ UNCHANGED <<Slotted, Failed, Recorded>>
         /\ Single(candidates'.lines) /\ Linked(candidates'.lines)
<1>1. UNCHANGED <<Slotted, Failed>>
  BY DEF SameLines, Slotted, Saved, Failed
<1>2. QED BY <1>1 DEF SameLines, Recorded, IInv

\* A step of the process to a place where only the status matters.
LEMMA GoesOff ==
  ASSUME IInv, SameLines, FilesTyped', NEW pc \in Places,
         pc \notin {"loop", "infer"}, pc = "settling" => ~proc'.complete,
         proc' \in [pc : {pc}, existing : SUBSET Slots,
                    index : [Problems -> [Codes -> Slots \cup {0}]],
                    cur : Nat, attempt : Nat, complete : BOOLEAN],
         pc \in {"starting", "resuming"} => status' \notin {"none", "completed"},
         pc \in Running => status' = "running"
  PROVE  IInv' /\ UNCHANGED Recorded
<1>1. ProcTyped' /\ proc'.pc = pc
  BY DEF ProcTyped
<1>2. Aware'
  BY <1>1 DEF Aware
<1>3. QED BY <1>1, <1>2, SameRecords DEF IInv

LEMMA OnwardTyped == ProcTyped /\ Onward => ProcTyped'
<1> SUFFICES ASSUME ProcTyped, Onward PROVE ProcTyped'
  OBVIOUS
<1>1. "loop" \in Places /\ proc.cur + 1 \in Nat
  BY DEF ProcTyped, Places, Running
<1>2. proc' = [proc EXCEPT !.pc = "loop", !.cur = proc.cur + 1]
  BY DEF Onward
<1>3. QED BY <1>1, <1>2 DEF ProcTyped

LEMMA GoTyped ==
  ASSUME ProcTyped, NEW pc \in Places
  PROVE  /\ [proc EXCEPT !.pc = pc] \in
              [pc : {pc}, existing : SUBSET Slots,
               index : [Problems -> [Codes -> Slots \cup {0}]],
               cur : Nat, attempt : Nat, complete : BOOLEAN]
         /\ [proc EXCEPT !.pc = pc].complete = proc.complete
BY DEF ProcTyped

\* The process is gone.
LEMMA LeaveStep ==
  ASSUME IInv, SameLines, FilesTyped', Leave
  PROVE  IInv' /\ UNCHANGED Recorded
<1>1. ProcTyped' /\ proc'.pc = "idle"
  <2>1. NoIndex \in [Problems -> [Codes -> Slots \cup {0}]]
    BY DEF NoIndex
  <2>2. Idle \in [pc : {"idle"}, existing : SUBSET Slots,
                  index : [Problems -> [Codes -> Slots \cup {0}]],
                  cur : Nat, attempt : Nat, complete : BOOLEAN]
    BY <2>1 DEF Idle
  <2>3. QED BY <2>2 DEF Leave, ProcTyped, Places
<1>2. Aware'
  BY <1>1 DEF Aware, Running
<1>3. QED BY <1>1, <1>2, SameRecords DEF IInv

\* A change of status, or the exception it raises.
LEMMA StatusStep ==
  ASSUME IInv, UNCHANGED <<candidates, failures>>, proc.pc # "idle",
         status \notin {"none", "completed"},
         NEW s, NEW pc \in Places, UpdateStatus(s, pc),
         s \in {"running", "interrupted", "failed"},
         pc \in {"starting", "loading", "counting"}, pc # "counting" => s = "running"
  PROVE  IInv' /\ Kind
<1>1. CASE May(s) /\ status' = s /\ GoTo(pc)
  <2>1. FilesTyped' /\ SameLines
    BY <1>1 DEF IInv, FilesTyped, SameLines
  <2>2. IInv' /\ UNCHANGED Recorded
    BY <1>1, <2>1, GoTyped, GoesOff DEF GoTo, IInv, Running
  <2>3. QED BY <1>1, <2>2 DEF Kind, Phase
<1>2. CASE Leave /\ UNCHANGED status
  <2>1. FilesTyped' /\ SameLines
    BY <1>2 DEF IInv, FilesTyped, SameLines
  <2>2. IInv' /\ UNCHANGED Recorded
    BY <1>2, <2>1, LeaveStep
  <2>3. QED BY <1>2, <2>2 DEF Kind, Phase
<1>3. QED BY <1>1, <1>2 DEF UpdateStatus

\* The process leaves, or turns to what only needs the run to be running.
LEMMA QuietStep ==
  ASSUME IInv, UNCHANGED status, SameLines, FilesTyped',
         NEW pc \in Places, pc = "broken" \/ pc = "interrupting",
         Leave \/ (GoTo(pc) /\ status = "running")
  PROVE  IInv' /\ Kind
<1>1. CASE Leave
  BY <1>1, LeaveStep DEF Kind, Phase
<1>2. CASE GoTo(pc) /\ status = "running"
  <2>1. pc \notin {"loop", "infer", "settling", "starting", "resuming"}
    OBVIOUS
  <2>2. proc' \in [pc : {pc}, existing : SUBSET Slots,
                   index : [Problems -> [Codes -> Slots \cup {0}]],
                   cur : Nat, attempt : Nat, complete : BOOLEAN]
    BY <1>2, <2>1, GoTyped DEF GoTo, IInv
  <2>3. IInv' /\ UNCHANGED Recorded
    BY <1>2, <2>1, <2>2, GoesOff
  <2>4. QED BY <2>3 DEF Kind, Phase
<1>3. QED BY <1>1, <1>2

\* A failure is recorded; the line may be glued to a fragment and be lost.
LEMMA FailureRecorded ==
  ASSUME IInv, RecordFailure, UNCHANGED <<status, candidates>>, proc.pc = "infer"
  PROVE  /\ FilesTyped' /\ UNCHANGED Slotted
         /\ status = "running" /\ proc.cur \in Slots \ Slotted
         /\ Kind
<1>1. status = "running" /\ proc.cur \in Slots \ Slotted
  BY DEF IInv, Aware, Running
<1>2. failures' = [there |-> TRUE, torn |-> FALSE,
                   lines |-> failures.lines \cup {Glued(failures, proc.cur)}]
  BY DEF RecordFailure, Logged
<1>3. Glued(failures, proc.cur) \in {proc.cur, Broken}
  BY DEF Glued
<1>4. FilesTyped'
  BY <1>1, <1>2, <1>3 DEF IInv, FilesTyped
<1>5. UNCHANGED Slotted
  BY DEF Slotted, Saved
<1>6. Recorded' = Recorded \/ Recorded' = Recorded \cup {proc.cur}
  BY <1>2, <1>3, <1>5 DEF Recorded, Failed
<1>7. Kind
  BY <1>1, <1>6 DEF Kind, Records, Phase
<1>8. QED BY <1>1, <1>4, <1>5, <1>7

\* The loop goes on with what it knows of candidates.jsonl.
LEMMA LoopStep ==
  ASSUME IInv, UNCHANGED <<status, candidates>>, FilesTyped', proc.pc \in {"loop", "infer"},
         ProcTyped', proc'.existing = proc.existing, proc'.index = proc.index,
         \/ proc'.pc = "loop"
         \/ proc'.pc = "infer" /\ proc'.cur \in Slots \ Slotted
  PROVE  IInv'
<1>1. UNCHANGED Slotted
  BY DEF Slotted, Saved
<1>2. Aware'
  BY <1>1 DEF IInv, Aware, Running
<1>3. QED BY <1>2 DEF IInv

\* An append that is cut short leaves every line as it was.
LEMMA CutShortKeepsLines ==
  ASSUME IInv, CutShort
  PROVE  FilesTyped /\ SameLines /\ (UNCHANGED status => FilesTyped')
<1>1. CASE UNCHANGED <<candidates, failures>>
  BY <1>1 DEF IInv, FilesTyped, SameLines
<1>2. CASE candidates' = Torn(candidates) /\ UNCHANGED failures
  BY <1>2 DEF IInv, FilesTyped, SameLines, Torn
<1>3. CASE failures' = Torn(failures) /\ UNCHANGED candidates
  BY <1>3 DEF IInv, FilesTyped, SameLines, Torn
<1>4. QED BY <1>1, <1>2, <1>3 DEF CutShort, files

\* Problems are counted, and a subset of them with as many is all of them.
LEMMA AllAccountedFor ==
  ASSUME IInv, FromRecords.problems_completed = Cardinality(Problems)
  PROVE  Recorded = Slots
<1> DEFINE Done == {q \in Problems : \A s \in Slots : ProblemOf[s] = q => s \in Slotted \cup Failed}
           f == [s \in Slots |-> ProblemOf[s]]
<1>1. f \in Surjection(Slots, Problems)
  BY DEF Surjection, Problems
<1>2. IsFiniteSet(Problems)
  BY <1>1, FS_Surjection, SlotNumbers
<1>3. Done \in SUBSET Problems /\ Cardinality(Done) = Cardinality(Problems)
  BY DEF FromRecords
<1>4. Done = Problems
  BY <1>2, <1>3, FS_Subset
<1>5. ASSUME NEW s \in Slots PROVE s \in Slotted \cup Failed
  <2>1. ProblemOf[s] \in Done
    BY <1>4 DEF Problems
  <2>2. QED BY <2>1
<1>6. Slotted \subseteq Slots /\ Failed \subseteq Slots
  BY SlottedAreSlots DEF IInv, FilesTyped, Failed
<1>7. QED BY <1>5, <1>6 DEF Recorded

LEMMA InvStep ==
  ASSUME IInv, [Next]_vars
  PROVE  IInv' /\ Kind
<1> DEFINE Goal == IInv' /\ Kind
<1>0. FilesTyped /\ ProcTyped /\ Aware
  BY DEF IInv
<1>1. ASSUME UNCHANGED <<candidates, failures, status, proc>> PROVE Goal
  BY <1>1 DEF IInv, FilesTyped, ProcTyped, Aware, Slotted, Saved, Failed, Recorded, Kind, Phase
<1>2. CASE Repair
  <2>1. FilesTyped' /\ SameLines
    BY <1>2 DEF Repair, Truncated, IInv, FilesTyped, SameLines
  <2>2. ProcTyped' /\ Aware'
    BY <1>0, <1>2 DEF Repair, ProcTyped, Aware, Running
  <2>3. QED BY <1>2, <2>1, <2>2, SameRecords DEF IInv, Kind, Phase, Repair
<1>3. CASE Create
  <2>1. FilesTyped' /\ SameLines
    BY <1>3 DEF Create, files, IInv, FilesTyped, SameLines
  <2>2. IInv' /\ UNCHANGED Recorded
    BY <1>0, <1>3, <2>1, GoTyped, GoesOff DEF Create, Invoke, GoTo, Running, Places
  <2>3. QED BY <1>3, <2>2 DEF Create, Kind, Opens, Phase
<1>4. CASE CheckResume
  <2>1. FilesTyped' /\ SameLines
    BY <1>4 DEF CheckResume, files, IInv, FilesTyped, SameLines
  <2>2. IInv' /\ UNCHANGED Recorded
    BY <1>0, <1>4, <2>1, GoTyped, GoesOff DEF CheckResume, Invoke, GoTo, Running, Places
  <2>3. QED BY <1>4, <2>2 DEF CheckResume, Kind, Phase
<1>5. CASE StartRun
  <2>1. status \notin {"none", "completed"}
    BY <1>0, <1>5 DEF StartRun, Aware
  <2>2. CASE UpdateStatus("running", "starting")
    BY <1>5, <2>1, <2>2, StatusStep DEF StartRun, files, Places
  <2>3. CASE UpdateStatus("running", "loading")
    BY <1>5, <2>1, <2>3, StatusStep DEF StartRun, files, Places, Running
  <2>4. QED BY <1>5, <2>2, <2>3 DEF StartRun
<1>6. CASE LoadIndex
  <2>1. status = "running" /\ UNCHANGED <<candidates, failures, status>>
    BY <1>0, <1>6 DEF LoadIndex, Aware, Running, files
  <2>2. CASE GoTo("broken")
    BY <1>0, <2>1, <2>2, QuietStep DEF FilesTyped, SameLines, Places, Running
  <2> DEFINE table == [q \in Problems |-> [c \in Codes |-> Earliest(q, c)]]
  <2>3. CASE CandidatesReadable /\ proc' = [proc EXCEPT !.pc = "loop", !.cur = 1,
                                                        !.existing = Slotted, !.index = table]
    <3>1. table \in [Problems -> [Codes -> Slots \cup {0}]]
      BY <1>0, EarliestIsFirst
    <3>2. Slotted \in SUBSET Slots
      BY <1>0, SlottedAreSlots
    <3>3. ProcTyped' /\ proc'.pc = "loop" /\ proc'.existing = Slotted /\ proc'.index = table
      BY <1>0, <2>3, <3>1, <3>2 DEF ProcTyped, Places, Running
    <3>4. UNCHANGED Slotted
      BY <2>1 DEF Slotted, Saved
    <3>5. \A q \in Problems, c \in Codes : First(candidates.lines, q, c, table[q][c])
      BY <1>0, EarliestIsFirst
    <3>6. Aware'
      BY <2>1, <2>3, <3>3, <3>4, <3>5 DEF Aware, CandidatesReadable, Running
    <3>7. FilesTyped' /\ SameLines
      BY <1>0, <2>1 DEF FilesTyped, SameLines
    <3>8. QED BY <2>1, <3>3, <3>6, <3>7, SameRecords DEF IInv, Kind, Phase
  <2>4. QED BY <1>6, <2>2, <2>3 DEF LoadIndex
<1>7. CASE Skip
  <2>1. FilesTyped' /\ ProcTyped' /\ UNCHANGED <<candidates, failures, status>>
    <3>1. FilesTyped' /\ UNCHANGED <<candidates, failures, status>>
      BY <1>0, <1>7 DEF Skip, files, FilesTyped
    <3>2. ProcTyped'
      BY <1>0, <1>7, OnwardTyped DEF Skip
    <3>3. QED BY <3>1, <3>2
  <2>2. IInv'
    BY <1>0, <1>7, <2>1, LoopStep DEF Skip, Onward, ProcTyped
  <2>3. QED BY <2>1, <2>2, SameRecords DEF Kind, Phase, SameLines
<1>8. CASE AppendPrompt
  <2>1. FilesTyped' /\ ProcTyped' /\ UNCHANGED <<candidates, failures, status>>
    BY <1>0, <1>8 DEF AppendPrompt, FilesTyped, ProcTyped, Places, Running
  <2>2. proc.cur \in Slots \ Slotted /\ proc.pc = "loop"
    BY <1>0, <1>8 DEF AppendPrompt, Missing, Aware
  <2>3. IInv'
    BY <1>0, <1>8, <2>1, <2>2, LoopStep DEF AppendPrompt, ProcTyped
  <2>4. QED BY <2>1, <2>3, SameRecords DEF Kind, Phase, SameLines
<1>9. CASE InferenceFails \/ Unusable
  <2>1. /\ proc.pc = "infer" /\ RecordFailure /\ UNCHANGED <<status, candidates>>
        /\ proc' = [proc EXCEPT !.attempt = proc.attempt + 1] \/ Onward
    BY <1>9 DEF InferenceFails, Unusable
  <2>2. FilesTyped' /\ proc.cur \in Slots \ Slotted /\ Kind
    BY <2>1, FailureRecorded
  <2>3. ProcTyped'
    <3>1. CASE proc' = [proc EXCEPT !.attempt = proc.attempt + 1]
      BY <1>0, <3>1 DEF ProcTyped
    <3>2. QED BY <1>0, <2>1, <3>1, OnwardTyped
  <2>4. IInv'
    BY <1>0, <2>1, <2>2, <2>3, LoopStep DEF Onward, ProcTyped
  <2>5. QED BY <2>2, <2>4
<1>10. CASE ModelLoadFails
  <2>1. /\ proc.pc = "infer" /\ RecordFailure /\ UNCHANGED <<status, candidates>>
        /\ proc' = [proc EXCEPT !.pc = "aborting"]
    BY <1>10 DEF ModelLoadFails, GoTo
  <2>2. FilesTyped' /\ UNCHANGED Slotted /\ status = "running" /\ Kind
    BY <2>1, FailureRecorded
  <2>3. ProcTyped' /\ Aware'
    BY <1>0, <2>1, <2>2 DEF ProcTyped, Places, Running, Aware
  <2>4. QED BY <2>1, <2>2, <2>3 DEF IInv
<1>11. CASE SaveCandidate
  <2>1. PICK c \in Codes :
          LET s == proc.cur
              q == ProblemOf[s]
              first == proc.index[q][c]
          IN  /\ candidates' = Appended(candidates, [slot |-> s, code |-> c, duplicate_of |-> first])
              /\ proc' = [proc EXCEPT !.pc = "loop", !.cur = s + 1,
                                      !.existing = proc.existing \cup {s},
                                      !.index[q][c] = IF first = 0 THEN s ELSE first]
    BY <1>11 DEF SaveCandidate
  <2>2. /\ proc.cur \in Slots \ Slotted /\ proc.cur \notin SlotsOf(candidates.lines)
        /\ ProblemOf[proc.cur] \in Problems /\ ~candidates.torn /\ status = "running"
        /\ proc.existing = Slotted
        /\ \A r \in Problems, d \in Codes : First(candidates.lines, r, d, proc.index[r][d])
    BY <1>0, <1>11, SlottedAreSlots DEF SaveCandidate, Aware, Running, Problems
  <2>3. PICK s \in Slots : s = proc.cur
    BY <2>2
  <2>4. PICK q \in Problems : q = ProblemOf[s]
    BY <2>2, <2>3
  <2>5. PICK first \in Slots \cup {0} : first = proc.index[q][c]
    BY <1>0 DEF ProcTyped
  <2>6. PICK line \in CandidateLine : line = [slot |-> s, code |-> c, duplicate_of |-> first]
    BY DEF CandidateLine
  <2>7. line.slot = s /\ line.code = c /\ line.duplicate_of = first
    BY <2>6
  <2>8. PICK K : K = Append(candidates.lines, line)
    OBVIOUS
  <2>9. candidates' = [there |-> TRUE, torn |-> FALSE, lines |-> K]
    BY <2>1, <2>2, <2>3, <2>4, <2>5, <2>6, <2>8 DEF Appended, Glued
  <2>10. /\ K \in Seq(CandidateLine)
         /\ SlotsOf(K) = SlotsOf(candidates.lines) \cup {s}
         /\ Single(K) /\ Linked(K)
         /\ \A r, d, u : First(candidates.lines, r, d, u) =>
                           First(K, r, d, IF r = q /\ d = c /\ u = 0 THEN s ELSE u)
    <3>1. candidates.lines \in Seq(CandidateLine) /\ Single(candidates.lines)
          /\ Linked(candidates.lines)
      BY <1>0 DEF FilesTyped, IInv
    <3>2. line.slot \notin SlotsOf(candidates.lines)
      BY <2>2, <2>3, <2>7
    <3>3. First(candidates.lines, ProblemOf[line.slot], line.code, line.duplicate_of)
      BY <2>2, <2>4, <2>5, <2>7
    <3>4. /\ K \in Seq(CandidateLine)
          /\ SlotsOf(K) = SlotsOf(candidates.lines) \cup {line.slot}
          /\ Single(K) /\ Linked(K)
          /\ \A r, d, u :
               First(candidates.lines, r, d, u) =>
                 First(K, r, d, IF r = ProblemOf[line.slot] /\ d = line.code /\ u = 0
                                THEN line.slot ELSE u)
      BY <2>8, <3>1, <3>2, <3>3, NewLine
    <3>5. QED BY <2>4, <2>7, <3>4
  <2>11. candidates'.lines = K /\ ~candidates'.torn
    BY <2>9
  <2>12. FilesTyped'
    <3>1. candidates' \in [there : BOOLEAN, lines : Seq(CandidateLine), torn : BOOLEAN]
      BY <2>9, <2>10
    <3>2. QED BY <1>0, <1>11, <3>1 DEF FilesTyped, SaveCandidate
  <2>13. Slotted' = Slotted \cup {s} /\ Failed' = Failed
    <3>1. Slotted' = SlotsOf(K)
      BY <2>10, <2>11, LinesAreCandidates DEF Slotted, Saved
    <3>2. Slotted = SlotsOf(candidates.lines)
      BY <1>0, SlottedAreSlots
    <3>3. QED BY <1>11, <2>10, <3>1, <3>2 DEF Failed, SaveCandidate
  <2>14. PICK now \in Slots \cup {0} : now = IF first = 0 THEN s ELSE first
    OBVIOUS
  <2>15. proc' = [proc EXCEPT !.pc = "loop", !.cur = s + 1, !.existing = Slotted \cup {s},
                              !.index = [proc.index EXCEPT ![q][c] = now]]
    BY <1>0, <2>1, <2>2, <2>3, <2>4, <2>5, <2>14 DEF ProcTyped
  <2>16. [proc.index EXCEPT ![q][c] = now] \in [Problems -> [Codes -> Slots \cup {0}]]
    BY <1>0 DEF ProcTyped
  <2>17. /\ ProcTyped' /\ proc'.pc = "loop" /\ proc'.existing = Slotted \cup {s}
         /\ proc'.index = [proc.index EXCEPT ![q][c] = now]
    <3>1. s + 1 \in Nat /\ Slotted \cup {s} \in SUBSET Slots /\ "loop" \in Places
      BY <1>0, SlotNumbers, SlottedAreSlots DEF Places, Running
    <3>2. QED BY <1>0, <2>15, <2>16, <3>1 DEF ProcTyped
  <2>18. \A r \in Problems, d \in Codes : First(K, r, d, proc'.index[r][d])
    <3>1. ASSUME NEW r \in Problems, NEW d \in Codes
          PROVE  proc'.index[r][d] = IF r = q /\ d = c /\ proc.index[r][d] = 0 THEN s
                                     ELSE proc.index[r][d]
      BY <1>0, <2>5, <2>14, <2>17 DEF ProcTyped
    <3>2. QED BY <2>2, <2>10, <3>1
  <2>19. Aware'
    BY <1>11, <2>2, <2>11, <2>13, <2>17, <2>18 DEF Aware, Running, SaveCandidate
  <2>20. Kind
    BY <1>11, <2>2, <2>13 DEF Kind, Records, Recorded, Phase, SaveCandidate
  <2>21. QED BY <2>10, <2>11, <2>12, <2>17, <2>19, <2>20 DEF IInv
<1>12. CASE StopRun
  <2>1. status = "running" /\ proc.pc # "idle" /\ UNCHANGED <<candidates, failures>>
    BY <1>0, <1>12 DEF StopRun, Aware, Running, files
  <2>2. UpdateStatus("failed", "counting") \/ UpdateStatus("interrupted", "counting")
    BY <1>12 DEF StopRun
  <2>3. QED BY <2>1, <2>2, StatusStep DEF Places
<1>13. CASE AbortRun
  <2>1. status = "running" /\ proc.pc # "idle" /\ UNCHANGED <<candidates, failures>>
    BY <1>0, <1>13 DEF AbortRun, Aware, Running, files
  <2>2. CASE UpdateStatus("failed", "counting")
    BY <2>1, <2>2, StatusStep DEF Places
  <2>3. CASE Leave /\ UNCHANGED status
    BY <1>0, <2>1, <2>3, LeaveStep DEF FilesTyped, SameLines, Kind, Phase
  <2>4. QED BY <1>13, <2>2, <2>3 DEF AbortRun
<1>14. ASSUME Leave, UNCHANGED <<candidates, failures, status>> PROVE Goal
  BY <1>0, <1>14, LeaveStep DEF FilesTyped, SameLines, Kind, Phase
<1>15. CASE WriteStatisticsLate
  BY <1>14, <1>15 DEF WriteStatisticsLate, files
<1>16. CASE WriteStatistics
  <2>1. status = "running" /\ UNCHANGED <<candidates, failures, status>>
    BY <1>0, <1>16 DEF WriteStatistics, Aware, Running, files
  <2> DEFINE done == FromRecords.problems_completed = Cardinality(Problems)
  <2>2. CASE proc' = [proc EXCEPT !.pc = "settling", !.complete = done]
    <3>1. ProcTyped' /\ proc'.pc = "settling" /\ proc'.complete = done
      <4>1. done \in BOOLEAN
        OBVIOUS
      <4> HIDE DEF done
      <4>2. QED BY <1>0, <2>2, <4>1 DEF ProcTyped, Places, Running
    <3>2. FilesTyped' /\ SameLines
      BY <1>0, <2>1 DEF FilesTyped, SameLines
    <3>3. UNCHANGED Recorded /\ Single(candidates'.lines) /\ Linked(candidates'.lines)
      BY <3>2, SameRecords
    <3>4. proc'.complete => Recorded' = Slots
      BY <3>1, <3>3, AllAccountedFor
    <3>5. Aware'
      BY <2>1, <3>1, <3>4 DEF Aware, Running
    <3>6. QED BY <2>1, <3>1, <3>2, <3>3, <3>5 DEF IInv, Kind, Phase
  <2>3. QED BY <1>14, <1>16, <2>1, <2>2 DEF WriteStatistics
<1>17. CASE Settle
  <2>1. /\ status = "running" /\ Leave /\ SameLines
        /\ proc.complete => Recorded = Slots
    BY <1>0, <1>17 DEF Settle, Aware, Running, files, SameLines
  <2>2. status' \in {"completed", "interrupted", "running"}
        /\ (status' = "completed" => proc.complete)
    BY <1>17, <2>1 DEF Settle
  <2>3. FilesTyped'
    BY <1>0, <1>17, <2>2 DEF FilesTyped, Settle, files
  <2>4. QED BY <2>1, <2>2, <2>3, LeaveStep DEF Kind, Settles, Phase
<1>18. CASE DiskFails
  <2>1. status = "running"
    BY <1>0, <1>18 DEF DiskFails, Missing, Aware, Running
  <2>2. QED BY <1>18, <2>1, CutShortKeepsLines, QuietStep DEF DiskFails, Places, Running
<1>19. CASE Interrupt
  <2>1. status = "running" /\ UNCHANGED <<candidates, failures, status>>
    BY <1>0, <1>19 DEF Interrupt, Aware, Running, files
  <2>2. FilesTyped' /\ SameLines
    BY <1>0, <2>1 DEF FilesTyped, SameLines
  <2>3. QED BY <1>19, <2>1, <2>2, QuietStep DEF Interrupt, Places, Running
<1>20. CASE Kill
  BY <1>20, CutShortKeepsLines, LeaveStep DEF Kill, Kind, Phase
<1>21. CASE UNCHANGED vars
  BY <1>1, <1>21 DEF vars, files
<1>22. QED BY <1>2, <1>3, <1>4, <1>5, <1>6, <1>7, <1>8, <1>9, <1>10, <1>11, <1>12, <1>13,
              <1>15, <1>16, <1>17, <1>18, <1>19, <1>20, <1>21 DEF Next, Step, Trouble

---------------------------------------------------------------------------
(* The theorems. *)

LEMMA InitialInv == Init => IInv /\ Recorded = {} /\ status = "none"
<1> SUFFICES ASSUME Init PROVE IInv /\ Recorded = {} /\ status = "none"
  OBVIOUS
<1>1. candidates.lines = <<>> /\ failures.lines = {} /\ proc.pc = "idle" /\ status = "none"
  BY DEF Init, NoFile, NoLog, Idle
<1>2. FilesTyped
  <2>1. <<>> \in Seq(CandidateLine)
    BY EmptySeq
  <2>2. QED BY <2>1 DEF Init, NoFile, NoLog, FilesTyped
<1>3. ProcTyped
  <2>1. NoIndex \in [Problems -> [Codes -> Slots \cup {0}]]
    BY DEF NoIndex
  <2>2. QED BY <2>1 DEF Init, Idle, ProcTyped, Places
<1>4. Len(candidates.lines) = 0 /\ 1..0 = {}
  BY <1>1, EmptySeq
<1>5. Single(candidates.lines) /\ Linked(candidates.lines)
  BY <1>4 DEF Single, Linked
<1>6. Recorded = {}
  BY <1>1, <1>4 DEF Recorded, Slotted, Saved, Failed
<1>7. Aware
  BY <1>1 DEF Aware, Running
<1>8. QED BY <1>1, <1>2, <1>3, <1>5, <1>6, <1>7 DEF IInv

\* README: a pair that has a candidate is never generated again, and no record is ever glued to
\* a fragment: whatever signals, errors, tears and resumes came between.
THEOREM PairsAreGeneratedOnce == Spec => []NeverTwice
<1>1. Init => IInv
  BY InitialInv
<1>2. IInv /\ [Next]_vars => IInv'
  BY InvStep
<1>3. IInv => NeverTwice
  BY LinesAreCandidates DEF IInv, FilesTyped, Single, NeverTwice
<1>4. QED BY <1>1, <1>2, <1>3, PTL DEF Spec

\* candidates.jsonl: duplicate_of names the earliest candidate of the problem with this code, over
\* any number of resumes, each of which rebuilds the index from the file.
THEOREM LinksNeverChain == Spec => []LinksToEarliest
<1>1. Init => IInv
  BY InitialInv
<1>2. IInv /\ [Next]_vars => IInv'
  BY InvStep
<1>3. IInv => LinksToEarliest
  <2> SUFFICES ASSUME IInv, NEW i \in 1..Len(candidates.lines)
               PROVE  LET me == candidates.lines[i]
                          same == {j \in 1..(i - 1) :
                                     /\ candidates.lines[j].code = me.code
                                     /\ ProblemOf[candidates.lines[j].slot] = ProblemOf[me.slot]}
                      IN  IF same = {} THEN me.duplicate_of = 0
                          ELSE \E j \in same : /\ \A k \in same : j <= k
                                               /\ me.duplicate_of = candidates.lines[j].slot
    BY DEF LinksToEarliest
  <2>1. LinkIsFirst(candidates.lines, i)
    BY DEF IInv, Linked
  <2>2. QED BY <2>1 DEF LinkIsFirst, EarlierHits
<1>4. QED BY <1>1, <1>2, <1>3, PTL DEF Spec

\* The generation run implements the run directory: what is recorded stays recorded, over crashes,
\* repairs and resumes, and a run is completed when every pair has an outcome, and then left alone.
THEOREM GenerationIsDirectory == Spec => IsDirectory
<1>1. Init => IInv /\ Directory!DirInit
  BY InitialInv DEF Directory!DirInit, Recorded
<1>2. IInv /\ [Next]_vars => IInv' /\ [Directory!DirNext]_Directory!dvars
  <2> SUFFICES ASSUME IInv, [Next]_vars PROVE IInv' /\ [Directory!DirNext]_Directory!dvars
    OBVIOUS
  <2>1. IInv' /\ Kind
    BY InvStep
  <2>2. [Directory!DirNext]_Directory!dvars
    BY <2>1 DEF Kind, Opens, Records, Settles, Phase, Recorded, Directory!DirNext,
                Directory!Open, Directory!Record, Directory!SettleRun, Directory!dvars
  <2>3. QED BY <2>1, <2>2
<1>3. QED BY <1>1, <1>2, PTL DEF Spec, IsDirectory, Directory!DirSpec

---------------------------------------------------------------------------
(* What a completed run leaves behind. *)

\* prompts.jsonl.  Nobody reads it and no repair mends it: once it cannot be read it never can be
\* again; until then every candidate's prompt is there, and the one that is being asked.
PromptsTyped == prompts \in [there : BOOLEAN, lines : SUBSET (Slots \cup {Broken}), torn : BOOLEAN]

Prompted ==
  PromptsReadable =>
    /\ Slotted \subseteq prompts.lines
    /\ proc.pc = "infer" => proc.cur \in prompts.lines

\* What statistics.json says, from the moment it is written to the end of the run.
Counted == Countable /\ statistics = FromRecords

ValidInv ==
  /\ PromptsTyped /\ Prompted
  /\ proc.pc = "settling" => Counted
  /\ proc.pc = "counting" => status # "completed"
  /\ status = "completed" => proc.pc = "idle" /\ Counted /\ Recorded = Slots

\* Nothing that decides what runs validate reads has changed.
LEMMA SameCounts ==
  ASSUME UNCHANGED <<candidates, failures>>
  PROVE  /\ UNCHANGED <<Slotted, Failed, Recorded, Countable, FromRecords>>
         /\ (UNCHANGED statistics /\ Counted => Counted')
<1>1. UNCHANGED <<Slotted, Failed>>
  BY DEF Slotted, Saved, Failed
<1>2. UNCHANGED Recorded
  BY <1>1 DEF Recorded
<1>3. UNCHANGED Countable
  BY DEF Countable, CandidatesReadable, FailuresReadable
<1>4. UNCHANGED FromRecords
  BY <1>1 DEF FromRecords
<1>5. QED BY <1>1, <1>2, <1>3, <1>4 DEF Counted

\* The only candidate a step may add is the one of the slot the loop is at.
LEMMA OneMoreSlot ==
  ASSUME IInv, [Next]_vars
  PROVE  \/ UNCHANGED Slotted
         \/ SaveCandidate /\ Slotted' \subseteq Slotted \cup {proc.cur}
<1>1. CASE UNCHANGED candidates.lines
  BY <1>1 DEF Slotted, Saved
<1>2. CASE SaveCandidate
  <2>1. PICK line : candidates'.lines = Append(candidates.lines, Glued(candidates, line))
                    /\ line.slot = proc.cur
    BY <1>2 DEF SaveCandidate, Appended
  <2>2. ~candidates.torn /\ candidates.lines \in Seq(CandidateLine)
    BY <1>2 DEF SaveCandidate, IInv, Aware, FilesTyped
  <2>3. PICK L \in Seq(CandidateLine), n \in Nat : L = candidates.lines /\ n = Len(L)
    BY <2>2, LenProperties
  <2>4. candidates'.lines = Append(L, line)
    BY <2>1, <2>2, <2>3 DEF Glued
  <2>5. \A i \in 1..Len(Append(L, line)) : Append(L, line)[i] = line \/ \E j \in 1..n : Append(L, line)[i] = L[j]
    <3>1. L \in Seq(CandidateLine \cup {line})
      BY <2>3, SeqMonotonic
    <3>2. /\ Len(Append(L, line)) = n + 1
          /\ \A i \in 1..n : Append(L, line)[i] = L[i]
          /\ Append(L, line)[n + 1] = line
      BY <2>3, <3>1, AppendProperties
    <3>3. \A i \in 1..(n + 1) : i \in 1..n \/ i = n + 1
      OBVIOUS
    <3>4. QED BY <3>2, <3>3
  <2>6. ASSUME NEW c \in Saved' PROVE c.slot \in Slotted \cup {proc.cur}
    <3>1. PICK i \in 1..Len(Append(L, line)) : c = Append(L, line)[i] /\ c # Broken
      BY <2>4 DEF Saved
    <3>2. CASE c = line
      BY <2>1, <3>2
    <3>3. ASSUME NEW j \in 1..n, c = L[j] PROVE c \in Saved
      BY <2>3, <3>1, <3>3 DEF Saved
    <3>4. QED BY <2>5, <3>1, <3>2, <3>3 DEF Slotted
  <2>7. QED BY <1>2, <2>6 DEF Slotted
<1>3. CutShort => UNCHANGED candidates.lines
  BY CutShortKeepsLines DEF SameLines
<1>4. Repair => UNCHANGED candidates.lines
  BY DEF Repair, Truncated, IInv, FilesTyped
<1>5. [Next]_vars => UNCHANGED candidates \/ CutShort \/ Repair \/ SaveCandidate
  BY DEF Next, Step, Trouble, Create, CheckResume, StartRun, LoadIndex, Skip, AppendPrompt,
         InferenceFails, Unusable, StopRun, AbortRun, WriteStatisticsLate, WriteStatistics, Settle,
         ModelLoadFails, DiskFails, Interrupt, Kill, files, vars
<1>6. QED BY <1>1, <1>2, <1>3, <1>4, <1>5

\* What a step does to prompts.jsonl.
PromptStep == \/ UNCHANGED prompts
              \/ prompts' = Torn(prompts) /\ (DiskFails \/ Kill)
              \/ AppendPrompt

LEMMA PromptSteps == [Next]_vars => PromptStep
BY DEF PromptStep, Next, Step, Trouble, Repair, Create, CheckResume, StartRun, LoadIndex, Skip,
       InferenceFails, Unusable, SaveCandidate, StopRun, AbortRun, WriteStatisticsLate,
       WriteStatistics, Settle, ModelLoadFails, DiskFails, Interrupt, Kill, CutShort, files, vars

\* Where a step leaves the process asking the model.
LEMMA AskedSteps ==
  ASSUME IInv, [Next]_vars, proc'.pc = "infer"
  PROVE  proc'.cur = proc.cur /\ (proc.pc = "infer" \/ AppendPrompt)
<1>1. ProcTyped
  BY DEF IInv
<1>2. CASE Leave
  BY <1>2 DEF Leave, Idle
<1>3. ASSUME NEW pc, GoTo(pc), pc # "infer" PROVE FALSE
  BY <1>1, <1>3 DEF GoTo, ProcTyped
<1>4. CASE Onward
  BY <1>1, <1>4 DEF Onward, ProcTyped
<1>5. ASSUME NEW s, NEW pc, UpdateStatus(s, pc), pc # "infer" PROVE FALSE
  BY <1>2, <1>3, <1>5 DEF UpdateStatus, Leave, Idle
<1>6. CASE AppendPrompt
  BY <1>1, <1>6 DEF AppendPrompt, ProcTyped
<1>7. CASE UNCHANGED proc
  BY <1>7
<1>8. CASE InferenceFails \/ Unusable
  BY <1>1, <1>4, <1>8 DEF InferenceFails, Unusable, ProcTyped
<1>9. CASE LoadIndex \/ SaveCandidate \/ WriteStatistics
  <2>1. CASE LoadIndex
    BY <1>1, <1>3, <2>1 DEF LoadIndex, ProcTyped
  <2>2. CASE SaveCandidate
    BY <1>1, <2>2 DEF SaveCandidate, ProcTyped
  <2>3. CASE WriteStatistics
    BY <1>1, <1>2, <2>3 DEF WriteStatistics, ProcTyped
  <2>4. QED BY <1>9, <2>1, <2>2, <2>3
<1>10. CASE Skip
  BY <1>4, <1>10 DEF Skip
<1>11. CASE Repair \/ UNCHANGED vars
  BY <1>7, <1>11 DEF Repair, vars
<1>12. CASE WriteStatisticsLate \/ Settle \/ Kill
  BY <1>2, <1>12 DEF WriteStatisticsLate, Settle, Kill
<1>13. CASE Create \/ CheckResume \/ ModelLoadFails \/ DiskFails \/ Interrupt
  BY <1>3, <1>13 DEF Create, CheckResume, Invoke, ModelLoadFails, DiskFails, Interrupt
<1>14. CASE StartRun
  BY <1>5, <1>14 DEF StartRun
<1>15. CASE StopRun
  BY <1>5, <1>15 DEF StopRun
<1>16. CASE AbortRun
  BY <1>2, <1>5, <1>16 DEF AbortRun
<1>17. QED BY <1>6, <1>8, <1>9, <1>10, <1>11, <1>12, <1>13, <1>14, <1>15, <1>16
           DEF Next, Step, Trouble

LEMMA PromptedStep ==
  ASSUME IInv, PromptsTyped, Prompted, [Next]_vars
  PROVE  PromptsTyped' /\ Prompted'
<1>1. PromptStep
  BY PromptSteps
<1>2. proc.pc = "infer" => proc.cur \in Slots
  BY DEF IInv, Aware
<1>3. CASE UNCHANGED prompts /\ ~AppendPrompt
  <2>1. PromptsTyped' /\ PromptsReadable' = PromptsReadable
    BY <1>3 DEF PromptsTyped, PromptsReadable
  <2>2. ASSUME PromptsReadable PROVE Slotted' \subseteq prompts'.lines
    BY <1>3, <2>2, OneMoreSlot DEF Prompted, SaveCandidate
  <2>3. ASSUME PromptsReadable, proc'.pc = "infer" PROVE proc'.cur \in prompts'.lines
    BY <1>3, <2>3, AskedSteps DEF Prompted
  <2>4. QED BY <2>1, <2>2, <2>3 DEF Prompted
<1>4. CASE prompts' = Torn(prompts)
  BY <1>4 DEF Torn, PromptsTyped, Prompted, PromptsReadable
<1>5. CASE AppendPrompt
  <2>1. /\ proc.cur \in Slots /\ UNCHANGED candidates
        /\ prompts' = [there |-> TRUE, torn |-> FALSE,
                       lines |-> prompts.lines \cup {Glued(prompts, proc.cur)}]
    BY <1>5 DEF AppendPrompt, Missing, Logged
  <2>2. Glued(prompts, proc.cur) = IF prompts.torn THEN Broken ELSE proc.cur
    BY DEF Glued
  <2>3. PromptsTyped'
    BY <2>1, <2>2 DEF PromptsTyped
  <2>4. UNCHANGED Slotted
    BY <2>1 DEF Slotted, Saved
  <2>5. proc'.cur = proc.cur
    BY <1>5 DEF AppendPrompt, IInv, ProcTyped
  <2>6. PromptsReadable' => PromptsReadable /\ prompts'.lines = prompts.lines \cup {proc.cur}
    BY <2>1, <2>2 DEF PromptsReadable, PromptsTyped
  <2>7. QED BY <2>3, <2>4, <2>5, <2>6 DEF Prompted
<1>6. QED BY <1>1, <1>3, <1>4, <1>5 DEF PromptStep

\* A place of the process that only one action leads to.
LEMMA Arrivals ==
  ASSUME IInv, [Next]_vars, proc'.pc \in {"settling", "counting"}
  PROVE  \/ proc'.pc = "settling" /\ WriteStatistics /\ Countable /\ statistics' = FromRecords
         \/ proc'.pc = "counting" /\ (StopRun \/ AbortRun) /\ status' \in {"failed", "interrupted"}
         \/ UNCHANGED vars
<1>1. ProcTyped
  BY DEF IInv
<1>2. ASSUME Leave PROVE FALSE
  BY <1>2 DEF Leave, Idle
<1>3. ASSUME NEW pc, GoTo(pc), pc \notin {"settling", "counting"} PROVE FALSE
  BY <1>1, <1>3 DEF GoTo, ProcTyped
<1>4. CASE Onward
  BY <1>1, <1>4 DEF Onward, ProcTyped
<1>5. ASSUME NEW s, NEW pc, UpdateStatus(s, pc) PROVE status' = s /\ GoTo(pc)
  BY <1>2, <1>5 DEF UpdateStatus, Leave, Idle
<1>6. CASE AppendPrompt \/ InferenceFails \/ Unusable
  BY <1>1, <1>4, <1>6 DEF AppendPrompt, InferenceFails, Unusable, ProcTyped
<1>7. CASE LoadIndex
  BY <1>1, <1>3, <1>7 DEF LoadIndex, ProcTyped
<1>8. CASE SaveCandidate
  BY <1>1, <1>8 DEF SaveCandidate, ProcTyped
<1>9. CASE WriteStatistics
  <2>1. CASE Countable
    BY <1>1, <1>9, <2>1 DEF WriteStatistics, ProcTyped
  <2>2. QED BY <1>2, <1>9, <2>1 DEF WriteStatistics
<1>10. CASE Skip
  BY <1>4, <1>10 DEF Skip
<1>11. CASE Repair
  BY <1>11 DEF Repair
<1>12. CASE WriteStatisticsLate \/ Settle \/ Kill
  BY <1>2, <1>12 DEF WriteStatisticsLate, Settle, Kill
<1>13. CASE Create \/ CheckResume \/ ModelLoadFails \/ DiskFails \/ Interrupt
  BY <1>3, <1>13 DEF Create, CheckResume, Invoke, ModelLoadFails, DiskFails, Interrupt
<1>14. CASE StartRun
  BY <1>3, <1>5, <1>14 DEF StartRun
<1>15. CASE StopRun
  <2>1. PICK s \in {"failed", "interrupted"} : UpdateStatus(s, "counting")
    BY <1>15 DEF StopRun
  <2>2. QED BY <1>1, <1>5, <1>15, <2>1 DEF GoTo, ProcTyped
<1>16. CASE AbortRun
  <2>1. UpdateStatus("failed", "counting")
    BY <1>2, <1>16 DEF AbortRun
  <2>2. QED BY <1>1, <1>5, <1>16, <2>1 DEF GoTo, ProcTyped
<1>17. QED BY <1>6, <1>7, <1>8, <1>9, <1>10, <1>11, <1>12, <1>13, <1>14, <1>15, <1>16
           DEF Next, Step, Trouble

\* Settle alone completes a run, and only a repair may come after that.
LEMMA Completing ==
  ASSUME IInv, ValidInv, [Next]_vars, status' = "completed"
  PROVE  /\ proc'.pc = "idle"
         /\ \/ status = "completed"
            \/ Settle /\ proc.complete /\ proc.pc = "settling"
         /\ UNCHANGED <<candidates, failures, statistics>>
<1>1. CASE status = "completed"
  <2>1. proc.pc = "idle" /\ ~candidates.torn /\ ~failures.torn
    BY <1>1 DEF ValidInv, Counted, Countable, CandidatesReadable, FailuresReadable
  <2>2. Repair \/ UNCHANGED vars
    BY <1>1, <2>1 DEF Next, Step, Trouble, Create, CheckResume, StartRun, LoadIndex, Skip, Missing,
         AppendPrompt, InferenceFails, Unusable, SaveCandidate, StopRun, AbortRun,
         WriteStatisticsLate, WriteStatistics, Settle, ModelLoadFails, DiskFails, Interrupt, Kill
  <2>3. CASE Repair
    BY <1>1, <2>1, <2>3 DEF Repair, Truncated, IInv, FilesTyped
  <2>4. QED BY <1>1, <2>1, <2>2, <2>3 DEF vars, files
<1>2. CASE status # "completed"
  <2>1. \A s, pc : UpdateStatus(s, pc) => status' \in {s, status}
    BY DEF UpdateStatus
  <2>2. status' = status \/ status' \in {"created", "running", "failed", "interrupted"} \/ Settle
    <3>1. StartRun \/ StopRun \/ AbortRun => status' \in {"running", "failed", "interrupted", status}
      BY <2>1 DEF StartRun, StopRun, AbortRun
    <3>2. Create => status' = "created"
      BY DEF Create
    <3>3. QED BY <3>1, <3>2 DEF Next, Step, Trouble, CheckResume, LoadIndex, Skip,
                AppendPrompt, InferenceFails, Unusable, SaveCandidate, Repair, vars,
                WriteStatisticsLate, WriteStatistics, ModelLoadFails, DiskFails, Interrupt, Kill
  <2>3. QED BY <1>2, <2>2 DEF Settle, Leave, Idle, files
<1>3. QED BY <1>1, <1>2

LEMMA ValidStep ==
  ASSUME IInv, ValidInv, [Next]_vars
  PROVE  ValidInv'
<1>1. PromptsTyped' /\ Prompted'
  BY PromptedStep DEF ValidInv
<1>2. ASSUME proc'.pc = "settling" PROVE Counted'
  <2>1. CASE WriteStatistics /\ Countable /\ statistics' = FromRecords
    BY <2>1, SameCounts DEF WriteStatistics, files, Counted
  <2>2. CASE UNCHANGED vars
    BY <1>2, <2>2, SameCounts DEF vars, files, ValidInv
  <2>3. QED BY <1>2, <2>1, <2>2, Arrivals
<1>3. proc'.pc = "counting" => status' # "completed"
  BY Arrivals DEF vars, ValidInv
<1>4. ASSUME status' = "completed" PROVE proc'.pc = "idle" /\ Counted' /\ Recorded' = Slots
  <2>1. Counted /\ Recorded = Slots
    BY <1>4, Completing DEF ValidInv, IInv, Aware
  <2>2. QED BY <1>4, <2>1, Completing, SameCounts
<1>5. QED BY <1>1, <1>2, <1>3, <1>4 DEF ValidInv

---------------------------------------------------------------------------
(* What runs validate says of it. *)

\* Slots and lines are counted alike, for no slot is there twice.
LEMMA LinesAreCounted ==
  ASSUME NEW L \in Seq(CandidateLine), Single(L), NEW n \in Nat, n = Len(L)
  PROVE  /\ Cardinality({L[i] : i \in 1..n}) = n
         /\ Cardinality(SlotsOf(L)) = n
         /\ Cardinality(1..n) = n
<1> DEFINE f == [i \in 1..n |-> L[i]]
           g == [i \in 1..n |-> L[i].slot]
           lines == {L[i] : i \in 1..n}
<1>1. IsFiniteSet(1..n) /\ Cardinality(1..n) = n
  <2>1. 1 \in Int /\ n \in Int
    OBVIOUS
  <2>2. IsFiniteSet(1..n) /\ Cardinality(1..n) = IF 1 > n THEN 0 ELSE n - 1 + 1
    BY <2>1, FS_Interval
  <2>3. QED BY <2>2
<1>2. f \in Bijection(1..n, lines)
  BY DEF Single, Bijection, Injection, Surjection, IsInjective
<1>3. g \in Bijection(1..n, SlotsOf(L))
  BY DEF Single, SlotsOf, Bijection, Injection, Surjection, IsInjective
<1>4. ExistsBijection(1..n, lines) /\ ExistsBijection(1..n, SlotsOf(L))
  BY <1>2, <1>3 DEF ExistsBijection
<1> HIDE DEF lines
<1>5. Cardinality(lines) = Cardinality(1..n) /\ Cardinality(SlotsOf(L)) = Cardinality(1..n)
  BY <1>1, <1>4, FS_Bijection
<1>6. QED BY <1>1, <1>5 DEF lines

\* A link leads to an earlier candidate of the run that has the same code.
LEMMA LinksLead ==
  ASSUME NEW L \in Seq(CandidateLine), Single(L), Linked(L), NEW i \in 1..Len(L)
  PROVE  /\ L[i].slot \in Slots /\ L[i].duplicate_of # L[i].slot
         /\ L[i].duplicate_of # 0 =>
              \E j \in 1..Len(L) : L[j].slot = L[i].duplicate_of /\ L[j].code = L[i].code
<1>1. L[i].slot \in Slots /\ L[i].slot # 0
  BY LinesAreCandidates, SlotNumbers DEF CandidateLine
<1>2. PICK n \in Nat : n = Len(L)
  BY LinesAreCandidates
<1>3. CASE EarlierHits(L, i) = {}
  BY <1>1, <1>3 DEF Linked, LinkIsFirst
<1>4. CASE EarlierHits(L, i) # {}
  <2>1. PICK j \in EarlierHits(L, i) : L[i].duplicate_of = L[j].slot
    BY <1>4 DEF Linked, LinkIsFirst
  <2>2. j \in 1..n /\ j # i /\ L[j].code = L[i].code
    BY <1>2 DEF EarlierHits
  <2>3. QED BY <1>1, <1>2, <2>1, <2>2 DEF Single
<1>5. QED BY <1>3, <1>4

LEMMA ValidatedWhole ==
  ASSUME IInv, ValidInv, status = "completed"
  PROVE  ValidateRun = IF PromptsReadable THEN {} ELSE {"jsonl"}
<1>1. Countable /\ statistics = FromRecords /\ Recorded = Slots
  BY DEF ValidInv, Counted
<1>2. PICK L \in Seq(CandidateLine), n \in Nat : /\ L = candidates.lines /\ n = Len(L)
                                                 /\ Single(L) /\ Linked(L)
  BY LinesAreCandidates DEF IInv, FilesTyped
<1>3. \A i \in 1..n : Candidate(L[i])
  BY <1>2, LinksLead DEF Candidate
<1>4. DOMAIN L = 1..n
  BY <1>2, LenProperties
<1>5. {j \in DOMAIN candidates.lines : Candidate(candidates.lines[j])} = 1..n
  BY <1>2, <1>3, <1>4
<1>6. LoadCandidates = {L[i] : i \in 1..n}
  BY <1>1, <1>2, <1>5 DEF LoadCandidates, Countable
<1>7. {c.slot : c \in LoadCandidates} = SlotsOf(L)
  BY <1>2, <1>6 DEF SlotsOf
<1>8. Slotted = SlotsOf(L)
  BY <1>2, SlottedAreSlots DEF IInv
<1>9. LoadFailures = Failed
  BY <1>1 DEF LoadFailures, Countable
<1>10. /\ Cardinality(LoadCandidates) = n /\ Cardinality(SlotsOf(L)) = n
       /\ Cardinality(1..n) = n
  BY <1>2, <1>6, LinesAreCounted
<1>11. StatisticsRecomputed = statistics
  <2>1. StatisticsRecomputed =
          [candidates_generated |-> Cardinality(LoadCandidates),
           generation_failures  |-> Cardinality(Failed \ Slotted),
           problems_completed   |-> Cardinality({q \in Problems : \A s \in Slots :
                                      ProblemOf[s] = q => s \in Slotted \cup Failed})]
    BY <1>7, <1>8, <1>9 DEF StatisticsRecomputed
  <2>2. QED BY <1>1, <1>2, <1>10, <2>1 DEF FromRecords
<1>12. NoDuplicateIds
  BY <1>5, <1>7, <1>10 DEF NoDuplicateIds
<1>13. DuplicateLinks
  <2> SUFFICES ASSUME NEW i \in 1..n, L[i].duplicate_of # 0
               PROVE  \E d \in LoadCandidates : d.slot = L[i].duplicate_of /\ d.code = L[i].code
    BY <1>6 DEF DuplicateLinks
  <2>1. PICK j \in 1..n : L[j].slot = L[i].duplicate_of /\ L[j].code = L[i].code
    BY <1>2, LinksLead
  <2>2. QED BY <1>6, <2>1
<1>14. \A c \in Saved : Candidate(c)
  BY <1>2, <1>3 DEF Saved
<1>15. PromptsThere
  BY <1>7, <1>8 DEF PromptsThere, ValidInv, Prompted
<1>16. Completeness
  BY <1>1, <1>7, <1>8, <1>9 DEF Completeness, Recorded
<1>17. CandidatesReadable /\ FailuresReadable
  BY <1>1 DEF Countable
<1> DEFINE checks == [manifest     |-> status # "none",
                      jsonl        |-> CandidatesReadable /\ FailuresReadable /\ PromptsReadable,
                      schema       |-> \A c \in Saved : Candidate(c),
                      duplicate_id |-> NoDuplicateIds,
                      duplicate_of |-> DuplicateLinks,
                      prompt       |-> PromptsThere,
                      statistics   |-> statistics = StatisticsRecomputed,
                      incomplete   |-> Completeness]
<1>18. /\ checks.manifest /\ checks.schema /\ checks.duplicate_id /\ checks.duplicate_of
       /\ checks.prompt /\ checks.statistics /\ checks.incomplete
       /\ checks.jsonl <=> PromptsReadable
  BY <1>11, <1>12, <1>13, <1>14, <1>15, <1>16, <1>17
<1>19. DOMAIN checks = {"manifest", "jsonl", "schema", "duplicate_id", "duplicate_of", "prompt",
                        "statistics", "incomplete"}
  OBVIOUS
<1>20. ValidateRun = {c \in DOMAIN checks : ~checks[c]}
  BY DEF ValidateRun
<1> HIDE DEF checks
<1>21. QED BY <1>18, <1>19, <1>20

\* runs/validation.py: a completed run owes nothing.  Its records can be read, every pair has a
\* candidate or a recorded failure, statistics.json is what they add up to, and `runs validate`
\* says nothing against it but that prompts.jsonl cannot be read, if a fragment was left in it.
THEOREM CompletedRunsAreValid == Spec => []CompletedIsValid
<1>1. Init => IInv /\ ValidInv
  <2>1. Init => PromptsTyped
    BY DEF Init, NoLog, PromptsTyped
  <2>2. Init => Prompted /\ proc.pc = "idle" /\ status = "none"
    <3> SUFFICES ASSUME Init PROVE Slotted = {} /\ proc.pc = "idle" /\ status = "none"
      BY DEF Prompted
    <3>1. Len(candidates.lines) = 0 /\ 1..0 = {}
      BY EmptySeq DEF Init, NoFile
    <3>2. QED BY <3>1 DEF Init, Idle, Slotted, Saved
  <2>3. QED BY <2>1, <2>2, InitialInv DEF ValidInv
<1>2. IInv /\ ValidInv /\ [Next]_vars => IInv' /\ ValidInv'
  BY InvStep, ValidStep
<1>3. IInv /\ ValidInv => CompletedIsValid
  BY ValidatedWhole DEF CompletedIsValid, ValidInv, Counted, Recorded
<1>4. QED BY <1>1, <1>2, <1>3, PTL DEF Spec
=============================================================================
