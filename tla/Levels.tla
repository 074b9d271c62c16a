------------------------------- MODULE Levels -------------------------------
(***************************************************************************)
(* The difficulty levels of one organisation and the questions that carry  *)
(* one (difficulty_service.py; the difficulty of ItemService.create and    *)
(* update and of BulkUploadService.process_upload).                        *)
(*                                                                         *)
(* A request reads the levels, decides, and writes the columns that differ *)
(* when it commits. Nothing is locked; items.difficulty is a plain string, *)
(* no foreign key. met collects what others committed since the read.      *)
(* Names, colours and positions are left out: a level is its key.          *)
(***************************************************************************)
EXTENDS Integers

CONSTANTS
  LevelReqs,      \* requests in flight
  LevelKeys,
  BuiltIn,        \* the levels every organisation starts with
  DefaultLevel,   \* the one of them that is picked for new questions
  LevelItems      \* questions

ASSUME LevelKeysAssumption ==
  "none" \notin LevelKeys /\ BuiltIn \subseteq LevelKeys /\ DefaultLevel \in BuiltIn

VARIABLES
  level,      \* DifficultyLevel.status of each key, "none" without a row
  default,    \* the levels with is_default
  carries,    \* ItemModel.difficulty of each question, "none" without a question
  levelWork   \* what each request has read and is about to do

levelVars == <<level, default, carries, levelWork>>

Rated   == {l \in LevelKeys : level[l] # "none"}
Offered == {l \in LevelKeys : level[l] = "active"}

NoLevelWork == [op |-> "none", l |-> "none", status |-> "keep", make |-> FALSE,
                clear |-> {}, items |-> {}, met |-> {}]

LevelInit ==
  /\ level = [l \in LevelKeys |-> "none"]
  /\ default = {}
  /\ carries = [i \in LevelItems |-> "none"]
  /\ levelWork = [r \in LevelReqs |-> NoLevelWork]

Decides(r, w) ==
  /\ levelWork[r].op = "none"
  /\ levelWork' = [levelWork EXCEPT ![r] = w]
  /\ UNCHANGED <<level, default, carries>>

(* What the others have met when a request settles. *)
Kind(op) == IF op = "seed" THEN {} ELSE IF op \in {"create", "update"} THEN {"level"}
            ELSE IF op = "delete" THEN {"delete"} ELSE {"items"}

Settles(r) ==
  levelWork' = [q \in LevelReqs |->
    IF q = r THEN NoLevelWork
    ELSE IF levelWork[q].op = "none" THEN levelWork[q]
    ELSE [levelWork[q] EXCEPT !.met = @ \union Kind(levelWork[r].op)]]

---------------------------------------------------------------------------
(* Reads and decisions. All but deleting first make sure there are levels. *)

FindsNone(r) ==
  /\ Rated = {}
  /\ Decides(r, [NoLevelWork EXCEPT !.op = "seed"])

(* _make_default(): the others that were read as the default no longer     *)
(* are.                                                                    *)
Clears(l, make) == IF make THEN default \ {l} ELSE {}

AskCreateLevel(r, l, make) ==
  /\ Rated # {} /\ l \notin Rated
  /\ Decides(r, [NoLevelWork EXCEPT !.op = "create", !.l = l, !.make = make,
                                    !.clear = Clears(l, make)])

(* The default stays active, one level does, and an archived one is        *)
(* restored before it becomes the default.                                 *)
MayBecome(l, status, make) ==
  /\ status = "archived" => l \notin default /\ Offered \ {l} # {}
  /\ make => status = "active"

AskUpdateLevel(r, l, status, make) ==
  /\ l \in Rated /\ (make \/ status # level[l])
  /\ MayBecome(l, status, make)
  /\ Decides(r, [NoLevelWork EXCEPT !.op = "update", !.l = l,
                    !.status = IF status = level[l] THEN "keep" ELSE status,
                    !.make = make /\ l \notin default, !.clear = Clears(l, make)])

(* Faulty variant, for a mutant: a level is deleted under its questions. *)
UnusedUnlessArchived(l) == level[l] = "archived" \/ \A i \in LevelItems : carries[i] # l

Unused(l) == \A i \in LevelItems : carries[i] # l

AskDeleteLevel(r, l) ==
  /\ l \in Rated \ BuiltIn
  /\ l \notin default
  /\ Unused(l)
  /\ Decides(r, [NoLevelWork EXCEPT !.op = "delete", !.l = l])

(* resolve(): the level that was asked for, else the default, else any.    *)
Resolved(raw) ==
  IF raw # "none" THEN {raw} \intersect Offered
  ELSE IF default \intersect Offered # {} THEN default \intersect Offered ELSE Offered

(* One new question, or all valid rows of a spreadsheet. *)
AskItems(r, new, raw) ==
  /\ new # {} /\ \A i \in new : carries[i] = "none" /\ \A q \in LevelReqs : i \notin levelWork[q].items
  /\ \E l \in Resolved(raw) :
       Decides(r, [NoLevelWork EXCEPT !.op = "items", !.l = l, !.items = new])

(* A question gets another level; its own, archived or not, is no change.  *)
AskRerate(r, i, l) ==
  /\ carries[i] \notin {"none", l} /\ l \in Offered
  /\ Decides(r, [NoLevelWork EXCEPT !.op = "rerate", !.l = l, !.items = {i}])

---------------------------------------------------------------------------
(* Commits *)

(* The keys are unique per organisation, so the levels are not seeded      *)
(* twice; the request then reads what is there.                            *)
SeedLevels(r) ==
  /\ levelWork[r].op = "seed"
  /\ IF Rated # {} THEN UNCHANGED <<level, default>>
     ELSE /\ level' = [l \in LevelKeys |-> IF l \in BuiltIn THEN "active" ELSE "none"]
          /\ default' = {DefaultLevel}
  /\ Settles(r)
  /\ UNCHANGED carries

NewDefaults(w) == default' = (default \ w.clear) \union (IF w.make THEN {w.l} ELSE {})

CommitLevel(r) ==
  LET w == levelWork[r] IN
  /\ \/ /\ w.op = "create" /\ w.l \notin Rated
        /\ level' = [level EXCEPT ![w.l] = "active"]
     \/ /\ w.op = "update" /\ w.l \in Rated
        /\ level' = [level EXCEPT ![w.l] = IF w.status = "keep" THEN @ ELSE w.status]
  /\ w.clear \subseteq Rated
  /\ NewDefaults(w)
  /\ Settles(r)
  /\ UNCHANGED carries

CommitDelete(r) ==
  LET w == levelWork[r] IN
  /\ w.op = "delete"
  /\ level' = [level EXCEPT ![w.l] = "none"]
  /\ default' = default \ {w.l}
  /\ Settles(r)
  /\ UNCHANGED carries

CommitItems(r) ==
  LET w == levelWork[r] IN
  /\ w.op \in {"items", "rerate"}
  /\ w.op = "rerate" => \A i \in w.items : carries[i] # "none"
  /\ carries' = [i \in LevelItems |-> IF i \in w.items THEN w.l ELSE carries[i]]
  /\ Settles(r)
  /\ UNCHANGED <<level, default>>

DropLevel(r) ==
  /\ levelWork[r].op # "none"
  /\ levelWork' = [levelWork EXCEPT ![r] = NoLevelWork]
  /\ UNCHANGED <<level, default, carries>>

(* A question is deleted (ItemService.delete). *)
ItemGoes(i) ==
  /\ carries[i] # "none"
  /\ carries' = [carries EXCEPT ![i] = "none"]
  /\ UNCHANGED <<level, default, levelWork>>

LevelStep(r) ==
  \/ FindsNone(r) \/ SeedLevels(r)
  \/ \E l \in LevelKeys, make \in BOOLEAN : AskCreateLevel(r, l, make)
  \/ \E l \in LevelKeys, status \in {"active", "archived"}, make \in BOOLEAN :
       AskUpdateLevel(r, l, status, make)
  \/ \E l \in LevelKeys : AskDeleteLevel(r, l)
  \/ \E new \in SUBSET LevelItems, raw \in LevelKeys \union {"none"} : AskItems(r, new, raw)
  \/ \E i \in LevelItems, l \in LevelKeys : AskRerate(r, i, l)
  \/ CommitLevel(r) \/ CommitDelete(r) \/ CommitItems(r)
  \/ DropLevel(r)

LevelNext ==
  \/ \E r \in LevelReqs : LevelStep(r)
  \/ \E i \in LevelItems : ItemGoes(i)

LevelSpec == LevelInit /\ [][LevelNext]_levelVars

---------------------------------------------------------------------------
(* What holds *)

LevelOps == {"seed", "create", "update", "delete", "items", "rerate"}

LevelTypeOK ==
  /\ level \in [LevelKeys -> {"none", "active", "archived"}]
  /\ default \subseteq LevelKeys
  /\ carries \in [LevelItems -> LevelKeys \union {"none"}]
  /\ levelWork \in [LevelReqs ->
       [op : LevelOps \union {"none"}, l : LevelKeys \union {"none"},
        status : {"keep", "active", "archived"}, make : BOOLEAN,
        clear : SUBSET LevelKeys, items : SUBSET LevelItems, met : SUBSET {"level", "delete", "items"}]]

OneDefault   == Rated # {} => \E l \in Offered : default = {l}
EveryOneRated == \A i \in LevelItems : carries[i] \in Rated \union {"none"}

RacedLevel(ops, kinds) == \E r \in LevelReqs :
  /\ levelWork[r].op \in ops /\ levelWork'[r].op = "none"
  /\ levelWork[r].met \intersect kinds # {}

(* One active level is the default, and every question carries a level the *)
(* organisation actually has (difficulty_service.py): both survive any     *)
(* sequence of requests, and only requests that overlapped can break them: *)
(* two changes of levels the first, a deletion and a question that takes   *)
(* the level the second.                                                   *)
LevelsKept == [][
  /\ OneDefault => OneDefault' \/ RacedLevel({"create", "update", "delete"}, {"level", "delete"})
  /\ EveryOneRated => \/ EveryOneRated'
                      \/ RacedLevel({"items", "rerate"}, {"delete"})
                      \/ RacedLevel({"delete"}, {"items"})]_levelVars

=============================================================================
