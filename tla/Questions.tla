------------------------------ MODULE Questions ------------------------------
(***************************************************************************)
(* One question of the bank, from its creation to its deletion, and the    *)
(* exams that copy its marks (ItemService; the rows of ExamService's       *)
(* add_items and remove_item).                                             *)
(*                                                                         *)
(* A request reads, decides, and writes what differs when it commits. Only *)
(* an edit of the marks locks: its UPDATE of the question is sent before   *)
(* the exams are read. Neither exam_items nor responses has a foreign key  *)
(* to items. An exam's other questions are worth Others, 0 without any.    *)
(***************************************************************************)
EXTENDS Integers, FiniteSetsExt

CONSTANTS
  QuestionReqs,   \* requests in flight
  Papers,         \* exams of the subject
  MarkValues,     \* the marks the question can have
  Others,         \* the marks of an exam's other questions
  MaxCopies,      \* bound: rows an exam can have for the question
  MaxTotal        \* bound: how far overlapping requests drive a total

ASSUME MarkValuesAssumption ==
  MarkValues \subseteq Nat \ {0} /\ Others \in Nat /\ MaxCopies \in Nat /\ MaxTotal \in Nat

VARIABLES
  item,       \* ItemModel: its status (draft and active are "usable"; "none"
              \* and "gone" are without a row) and marks
  editable,   \* the exams that are drafts or rejected
  copies,     \* ExamItem rows of the question: exam, row number, marks
  sum,        \* ExamModel.total_marks
  answered,   \* exams in which a student has answered it
  itemWork    \* what each request has read and is about to do

itemVars == <<item, editable, copies, sum, answered, itemWork>>

Copies  == [e : Papers, n : 1..MaxCopies, m : MarkValues]
On(e)   == {c \in copies : c.e = e}
Adds(S) == MapThenSumSet(LAMBDA c : c.m, S)
InBank  == item.status \notin {"none", "gone"}
Capped(n) == IF n < 0 THEN 0 ELSE n      \* max(0, ...)
KeepTotal == -1

NoTotals   == [e \in Papers |-> KeepTotal]
NoItemWork == [op |-> "none", pc |-> "idle", m |-> 0, locks |-> FALSE,
               adds |-> {}, drops |-> {}, marks |-> {}, sums |-> NoTotals, met |-> {}]

QuestionInit ==
  /\ item = [status |-> "none", marks |-> 0]
  /\ editable = Papers
  /\ copies = {}
  /\ sum = [e \in Papers |-> Others]
  /\ answered = {}
  /\ itemWork = [r \in QuestionReqs |-> NoItemWork]

Loads(r, w) ==
  /\ itemWork[r].pc = "idle"
  /\ itemWork' = [itemWork EXCEPT ![r] = w]
  /\ UNCHANGED <<item, editable, copies, sum, answered>>

(* What matters to the others of what a request has done. *)
Mark(op) == IF op \in {"marks", "remove"} THEN {"rows"} ELSE {op}

Meets(op) == [q \in QuestionReqs |->
  IF itemWork[q].pc = "idle" THEN itemWork[q] ELSE [itemWork[q] EXCEPT !.met = @ \union Mark(op)]]

Leaves(r) == itemWork' = [Meets(itemWork[r].op) EXCEPT ![r] = NoItemWork]

(* A total is written if it is not what was read. *)
NewTotal(e, n) == IF n = sum[e] THEN KeepTotal ELSE n
Writes(f) ==
  /\ sum' = [e \in Papers |-> IF f[e] = KeepTotal THEN sum[e] ELSE f[e]]
  /\ \A e \in Papers : sum'[e] <= MaxTotal

---------------------------------------------------------------------------
(* Reads and decisions *)

CreateItem(m) ==
  /\ item.status = "none"
  /\ item' = [status |-> "usable", marks |-> m]
  /\ UNCHANGED <<editable, copies, sum, answered, itemWork>>

AskMarks(r, m) ==
  /\ InBank
  /\ Loads(r, [NoItemWork EXCEPT !.op = "marks", !.pc = "sync", !.m = m, !.locks = m # item.marks])

(* Faulty variant, for a mutant: every exam follows the new marks. *)
AnyPaper(c) == c \in copies

StillDraft(c) == c.e \in editable

(* _sync_draft_exam_marks(): new marks reach the database first and wait   *)
(* for others that are there; then the rows of draft exams are read.       *)
SyncMarks(r) ==
  LET w == itemWork[r]
      follow == {c \in copies : StillDraft(c)} IN
  /\ w.pc = "sync"
  /\ w.locks => InBank /\ \A q \in QuestionReqs : ~(itemWork[q].pc = "commit" /\ itemWork[q].locks)
  /\ itemWork' = [itemWork EXCEPT ![r] =
       [w EXCEPT !.pc = "commit", !.met = {},
          !.marks = {c \in follow : c.m # w.m},
          !.sums = [e \in Papers |->
            LET mine == {c \in follow : c.e = e} IN
            NewTotal(e, Capped(sum[e] - Adds(mine) + w.m * Cardinality(mine)))]]]
  /\ UNCHANGED <<item, editable, copies, sum, answered>>

(* update_status(), in one step: what it overlaps makes no difference to   *)
(* the exams. Of a draft and an active question, either may be archived;   *)
(* an archived one can only become a draft again.                          *)
SetStatus(to) ==
  /\ InBank /\ to # item.status
  /\ item' = [item EXCEPT !.status = to]
  /\ UNCHANGED <<editable, copies, sum, answered, itemWork>>

(* _usage() *)
MayDelete == answered = {} /\ \A c \in copies : c.e \in editable

(* It is taken off the exams it is on, each for its own marks. *)
AskDelete(r) ==
  /\ InBank
  /\ MayDelete
  /\ Loads(r, [NoItemWork EXCEPT !.op = "delete", !.pc = "commit", !.drops = copies,
       !.sums = [e \in Papers |-> NewTotal(e, Capped(sum[e] - Adds(On(e))))]])

(* The first row number that nothing has or names. *)
NextRow(e) ==
  LET used == {c.n : c \in {x \in UNION {itemWork[q].adds \union itemWork[q].drops \union itemWork[q].marks :
                                         q \in QuestionReqs} : x.e = e}}
  IN Min({n \in 1..(MaxCopies + 1) : n \notin used})

(* add_items(): the total is computed anew from the rows. *)
AskAddCopy(r, e, n) ==
  /\ e \in editable /\ InBank /\ item.status # "archived"
  /\ On(e) = {}
  /\ n = NextRow(e)
  /\ Loads(r, [NoItemWork EXCEPT !.op = "add", !.pc = "commit",
       !.adds = {[e |-> e, n |-> n, m |-> item.marks]},
       !.sums = [NoTotals EXCEPT ![e] = NewTotal(e, Others + item.marks)]])

AskRemove(r, c) ==
  /\ c \in copies /\ c.e \in editable
  /\ Loads(r, [NoItemWork EXCEPT !.op = "remove", !.pc = "commit", !.drops = {c},
       !.sums = [NoTotals EXCEPT ![c.e] = NewTotal(c.e, Capped(sum[c.e] - c.m))]])

---------------------------------------------------------------------------
(* Commits. A row is deleted whatever its marks are by then, and it is no  *)
(* error if it is gone; an UPDATE needs its row.                           *)

SameRow(c, S) == \E x \in S : x.e = c.e /\ x.n = c.n

CommitItem(r) ==
  LET w == itemWork[r] IN
  /\ w.pc = "commit" /\ w.op \in {"marks", "delete"}
  /\ InBank
  /\ w.op = "delete" => \A q \in QuestionReqs : ~(itemWork[q].pc = "commit" /\ itemWork[q].locks)
  /\ \A c \in w.marks : SameRow(c, copies)
  /\ item' = [status |-> IF w.op = "delete" THEN "gone" ELSE item.status,
              marks  |-> IF w.locks THEN w.m ELSE item.marks]
  /\ copies' = {IF SameRow(c, w.marks) THEN [c EXCEPT !.m = w.m] ELSE c :
                  c \in {x \in copies : ~SameRow(x, w.drops)}}
  /\ Writes(w.sums)
  /\ Leaves(r)
  /\ UNCHANGED <<editable, answered>>

CommitCopies(r) ==
  LET w == itemWork[r] IN
  /\ w.pc = "commit" /\ w.op \in {"add", "remove"}
  /\ copies' = {x \in copies : ~SameRow(x, w.drops)} \union w.adds
  /\ Writes(w.sums)
  /\ Leaves(r)
  /\ UNCHANGED <<item, editable, answered>>

DropItem(r) ==
  /\ itemWork[r].pc # "idle"
  /\ itemWork' = [itemWork EXCEPT ![r] = NoItemWork]
  /\ UNCHANGED <<item, editable, copies, sum, answered>>

(* An exam is submitted, or opened for editing again by a rejection; the   *)
(* administrators' override does either, also to an exam without questions.*)
Turn(e) ==
  /\ editable' = IF e \in editable THEN editable \ {e} ELSE editable \union {e}
  /\ itemWork' = Meets("turn")
  /\ UNCHANGED <<item, copies, sum, answered>>

(* A student answers the question in an exam that is under way. *)
AnswerIn(e) ==
  /\ e \notin editable /\ e \notin answered /\ On(e) # {}
  /\ answered' = answered \union {e}
  /\ itemWork' = Meets("answer")
  /\ UNCHANGED <<item, editable, copies, sum>>

QuestionStep(r) ==
  \/ \E m \in MarkValues : AskMarks(r, m)
  \/ SyncMarks(r)
  \/ AskDelete(r)
  \/ \E e \in Papers, n \in 1..MaxCopies : AskAddCopy(r, e, n)
  \/ \E c \in copies : AskRemove(r, c)
  \/ CommitItem(r) \/ CommitCopies(r)
  \/ DropItem(r)

QuestionNext ==
  \/ \E m \in MarkValues : CreateItem(m)
  \/ \E to \in {"usable", "archived"} : SetStatus(to)
  \/ \E r \in QuestionReqs : QuestionStep(r)
  \/ \E e \in Papers : Turn(e) \/ AnswerIn(e)

QuestionSpec == QuestionInit /\ [][QuestionNext]_itemVars

---------------------------------------------------------------------------
(* What holds *)

QuestionTypeOK ==
  /\ item \in [status : {"none", "usable", "archived", "gone"}, marks : MarkValues \union {0}]
  /\ editable \subseteq Papers
  /\ copies \subseteq Copies
  /\ sum \in [Papers -> Nat]
  /\ answered \subseteq Papers
  /\ itemWork \in [QuestionReqs ->
       [op : {"none", "marks", "delete", "add", "remove"},
        pc : {"idle", "sync", "commit"}, m : MarkValues \union {0}, locks : BOOLEAN,
        adds : SUBSET Copies, drops : SUBSET Copies, marks : SUBSET Copies,
        sums : [Papers -> Nat \union {KeepTotal}],
        met : SUBSET {"rows", "add", "delete", "turn", "answer"}]]

NoDangling == copies # {} \/ answered # {} => InBank
Balanced   == \A e \in Papers : sum[e] = Others + Adds(On(e))

RacedItem(ops, kinds) == \E r \in QuestionReqs :
  /\ itemWork[r].pc = "commit" /\ itemWork[r].op \in ops /\ itemWork'[r].pc = "idle"
  /\ itemWork[r].met \intersect kinds # {}

Moves == {"marks", "delete", "add", "remove"}
Moved == {"rows", "add", "delete"}

(* An exam and the students' answers keep their question, the totals add   *)
(* up, and an exam that is past draft keeps its marks ("Exams still being  *)
(* built follow the question's new marks; ones past draft keep theirs",    *)
(* "Only when no student has answered it and it isn't on an exam past      *)
(* draft", ItemService): only a request that another one overtook between  *)
(* its reads and its commit can break any of them.                         *)
QuestionsKept == [][
  /\ NoDangling => \/ NoDangling'
                   \/ RacedItem({"add"}, {"delete"})
                   \/ RacedItem({"delete"}, {"add", "turn", "answer"})
  /\ Balanced => Balanced' \/ RacedItem(Moves, Moved)
  /\ \A e \in Papers \ editable : On(e)' # On(e) => RacedItem(Moves, {"turn"})]_itemVars

=============================================================================
