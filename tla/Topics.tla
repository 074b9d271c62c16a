------------------------------- MODULE Topics -------------------------------
(***************************************************************************)
(* The topics of one subject and the questions tagged with them            *)
(* (bank_topic_service.TopicService, ScopeService.validate_topics and      *)
(* set_item_topics).                                                       *)
(*                                                                         *)
(* No request locks anything. What it has read goes into its record; it    *)
(* writes when it commits, and only the columns that differ from what it   *)
(* read. met collects what the others committed in between.                *)
(***************************************************************************)
EXTENDS Integers

CONSTANTS
  TopicReqs,    \* requests in flight
  TopicIds,
  TopicNames    \* names, compared without their case

ASSUME TopicIdsAssumption == TopicIds \intersect {"top", "gone", "none"} = {}

VARIABLES
  parent,       \* Topic.parent_id: a topic, "top", or "gone" without a row
  name,         \* Topic.name
  tagged,       \* the topics that questions or exams are tagged with
  topicWork     \* what each request has read and is about to do

topicVars == <<parent, name, tagged, topicWork>>

Places == TopicIds \union {"top"}
There  == {t \in TopicIds : parent[t] # "gone"}
Hangs(p) == p = "top" \/ p \in There
Namesakes(t, p, n) == {u \in There \ {t} : parent[u] = p /\ name[u] = n}

(* A new id is one that no row has and nothing in flight names. *)
FreshTopic(t) ==
  /\ t \notin There
  /\ \A r \in TopicReqs : t \notin {topicWork[r].t, topicWork[r].to, topicWork[r].cursor}

NoTopicWork == [op |-> "none", pc |-> "idle", t |-> "none", to |-> "top", as |-> "none",
                cursor |-> "top", moves |-> FALSE, renames |-> FALSE, met |-> {}]

TopicInit ==
  /\ parent = [t \in TopicIds |-> "gone"]
  /\ name = [t \in TopicIds |-> "none"]
  /\ tagged = {}
  /\ topicWork = [r \in TopicReqs |-> NoTopicWork]

Asks(r, w) ==
  /\ topicWork[r].pc = "idle"
  /\ topicWork' = [topicWork EXCEPT ![r] = w]
  /\ UNCHANGED <<parent, name, tagged>>

(* r is done; those still in flight have met what it did. *)
Commits(r) ==
  topicWork' = [q \in TopicReqs |->
    IF q = r THEN NoTopicWork
    ELSE IF topicWork[q].pc = "idle" THEN topicWork[q]
    ELSE [topicWork[q] EXCEPT !.met = @ \union {topicWork[r].op}]]

---------------------------------------------------------------------------
(* Reads *)

AskCreateTopic(r, t, p, n) ==
  /\ FreshTopic(t) /\ Hangs(p)
  /\ Namesakes(t, p, n) = {}
  /\ Asks(r, [NoTopicWork EXCEPT !.op = "create", !.pc = "commit", !.t = t, !.to = p, !.as = n])

AskRename(r, t, n) ==
  /\ t \in There
  /\ Namesakes(t, parent[t], n) = {}
  /\ Asks(r, [NoTopicWork EXCEPT !.op = "update", !.pc = "commit", !.t = t, !.to = parent[t],
                                 !.as = n, !.renames = n # name[t]])

AskMove(r, t, p) ==
  /\ t \in There
  /\ Asks(r, [NoTopicWork EXCEPT !.op = "update", !.pc = "walk", !.t = t, !.to = p,
                                 !.as = name[t], !.cursor = p, !.moves = p # parent[t]])

(* Faulty variant, for a mutant: only the new parent itself is looked at. *)
WalkOnce(r) ==
  LET w == topicWork[r] IN
  /\ w.pc = "walk"
  /\ w.cursor # w.t
  /\ topicWork' = [topicWork EXCEPT ![r].pc = "commit", ![r].cursor = "top"]
  /\ UNCHANGED <<parent, name, tagged>>

(* Up from the new parent, one row at a time: a topic that is met on the   *)
(* way is not moved. At the top the names beside it are compared.          *)
WalkUp(r) ==
  LET w == topicWork[r] IN
  /\ w.pc = "walk"
  /\ w.cursor # w.t
  /\ \/ /\ w.cursor = "top"
        /\ Namesakes(w.t, w.to, w.as) = {}
        /\ topicWork' = [topicWork EXCEPT ![r].pc = "commit"]
     \/ /\ w.cursor \in There
        /\ topicWork' = [topicWork EXCEPT ![r].cursor = parent[w.cursor]]
  /\ UNCHANGED <<parent, name, tagged>>

AskDeleteTopic(r, t) ==
  /\ t \in There
  /\ \A u \in There : parent[u] # t
  /\ Asks(r, [NoTopicWork EXCEPT !.op = "delete", !.pc = "commit", !.t = t])

---------------------------------------------------------------------------
(* Commits; parent_id, item_topics and exam_topics are foreign keys *)

CommitCreateTopic(r) ==
  LET w == topicWork[r] IN
  /\ w.pc = "commit" /\ w.op = "create"
  /\ Hangs(w.to)
  /\ parent' = [parent EXCEPT ![w.t] = w.to]
  /\ name' = [name EXCEPT ![w.t] = w.as]
  /\ Commits(r)
  /\ UNCHANGED tagged

CommitUpdateTopic(r) ==
  LET w == topicWork[r] IN
  /\ w.pc = "commit" /\ w.op = "update"
  /\ w.t \in There
  /\ w.moves => Hangs(w.to)
  /\ parent' = IF w.moves THEN [parent EXCEPT ![w.t] = w.to] ELSE parent
  /\ name' = IF w.renames THEN [name EXCEPT ![w.t] = w.as] ELSE name
  /\ Commits(r)
  /\ UNCHANGED tagged

CommitDeleteTopic(r) ==
  LET w == topicWork[r] IN
  /\ w.pc = "commit" /\ w.op = "delete"
  /\ \A u \in There : parent[u] # w.t
  /\ parent' = [parent EXCEPT ![w.t] = "gone"]
  /\ name' = [name EXCEPT ![w.t] = "none"]
  /\ tagged' = tagged \ {w.t}
  /\ Commits(r)

(* A question's or an exam's topics are replaced, in one step: whether     *)
(* they are there is read before and checked again by the foreign keys.    *)
SetTopics(want) ==
  /\ want \subseteq There
  /\ tagged' = want
  /\ UNCHANGED <<parent, name, topicWork>>

(* A request that is refused, fails or is cut off writes nothing. *)
DropTopic(r) ==
  /\ topicWork[r].pc # "idle"
  /\ topicWork' = [topicWork EXCEPT ![r] = NoTopicWork]
  /\ UNCHANGED <<parent, name, tagged>>

TopicStep(r) ==
  \/ \E t \in TopicIds, p \in Places, n \in TopicNames : AskCreateTopic(r, t, p, n)
  \/ \E t \in TopicIds, n \in TopicNames : AskRename(r, t, n)
  \/ \E t \in TopicIds, p \in Places : AskMove(r, t, p)
  \/ \E t \in TopicIds : AskDeleteTopic(r, t)
  \/ WalkUp(r)
  \/ CommitCreateTopic(r) \/ CommitUpdateTopic(r) \/ CommitDeleteTopic(r)
  \/ DropTopic(r)

TopicNext ==
  \/ \E r \in TopicReqs : TopicStep(r)
  \/ \E want \in SUBSET TopicIds : SetTopics(want)

TopicSpec == TopicInit /\ [][TopicNext]_topicVars

---------------------------------------------------------------------------
(* What holds *)

TopicTypeOK ==
  /\ parent \in [TopicIds -> Places \union {"gone"}]
  /\ name \in [TopicIds -> TopicNames \union {"none"}]
  /\ tagged \subseteq TopicIds
  /\ topicWork \in [TopicReqs ->
       [op : {"none", "create", "update", "delete"}, pc : {"idle", "walk", "commit"},
        t : TopicIds \union {"none"}, to : Places, as : TopicNames \union {"none"},
        cursor : Places \union {"gone"}, moves : BOOLEAN, renames : BOOLEAN,
        met : SUBSET {"create", "update", "delete"}]]

(* No topic is above itself. *)
NoLoop == \A S \in SUBSET TopicIds : S # {} => \E t \in S : parent[t] \notin S

SiblingsDiffer == \A t \in There : Namesakes(t, parent[t], name[t]) = {}

Changes == {"create", "update"}
Raced(kinds) == \E r \in TopicReqs :
  /\ topicWork[r].pc = "commit" /\ topicWork[r].op \in kinds /\ topicWork'[r].pc = "idle"
  /\ topicWork[r].met \intersect kinds # {}

(* Topics stay a tree of distinguishable topics (TopicService.update, "A   *)
(* topic can't be moved under itself"): what is tagged and what is above   *)
(* is there, a loop can only be closed by a move that overlapped another   *)
(* one, and a namesake beside a topic only by overlapping changes.         *)
TreeKept == [][
  /\ \A t \in There' : Hangs(parent[t])'
  /\ tagged' \subseteq There'
  /\ NoLoop => NoLoop' \/ Raced({"update"})
  /\ SiblingsDiffer => SiblingsDiffer' \/ Raced(Changes)]_topicVars

=============================================================================
