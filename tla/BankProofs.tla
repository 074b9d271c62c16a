----------------------------- MODULE BankProofs -----------------------------
(***************************************************************************)
(* The question bank's parts: topics, difficulty levels, periods, the      *)
(* staff of the banks and the questions, and all of them beside the marks  *)
(* (MCStaffWork). The requests of each read, decide and commit, all but    *)
(* the edit of a question's marks without a lock, and each proof goes the  *)
(* same way. What a request has read still holds, or it has met somebody   *)
(* who changes that: this is the invariant.                                *)
(* Every decision establishes it; every commit keeps it for the others,    *)
(* whose met tells them what they met; and the commit of a request that    *)
(* met nothing finds what it read and leaves the component sound. For a    *)
(* question, what is read is its marks, its copies and the totals of their *)
(* exams, and that an exam's total is the sum of its copies is shown by    *)
(* what a sum does when a copy comes, goes or is marked anew.              *)
(***************************************************************************)
EXTENDS MCStaffWork, MarkingProofs, SumTheorems

---------------------------------------------------------------------------
(***************************************************************************)
(* Topics. A move has walked up from its new parent, one row at a time,    *)
(* while others changed the tree: the topics it has passed lead to where   *)
(* it stands, and its own topic is none of them.                           *)
(***************************************************************************)
TopicWorks ==
  [op : {"none", "create", "update", "delete"}, pc : {"idle", "walk", "commit"},
   t : TopicIds \union {"none"}, to : Places, as : TopicNames \union {"none"},
   cursor : Places \union {"gone"}, moves : BOOLEAN, renames : BOOLEAN,
   met : SUBSET {"create", "update", "delete"}]

Unchanged(w) == w.met \intersect Changes = {}

TopicSound(w) ==
  /\ w \in TopicWorks
  /\ w.pc = "idle" <=> w.op = "none"
  /\ w.pc = "walk" => w.op = "update"
  /\ w.op # "none" => w.t \in TopicIds
  /\ w.op = "create" => /\ w.t \notin There
                        /\ Unchanged(w) => Namesakes(w.t, w.to, w.as) = {}
  /\ w.op = "update" /\ Unchanged(w) /\ w.t \in There =>
       /\ ~ w.moves => parent[w.t] = w.to
       /\ ~ w.renames => name[w.t] = w.as
       /\ w.pc = "commit" => Namesakes(w.t, w.to, w.as) = {}
  /\ w.moves => w.op = "update"
  /\ w.moves /\ w.pc = "commit" => w.cursor = "top"

(* The topics that were passed are there, and each hangs below another one *)
(* or below the cursor.                                                    *)
Way(w) == \E A \in SUBSET There :
  /\ w.t \notin A
  /\ w.to \in A \union {w.cursor}
  /\ \A a \in A : parent[a] \in A \union {w.cursor}

(* The new parent is gone and nobody is about to bring its id back. *)
Lost(w) ==
  /\ w.to \notin There \union {"top"}
  /\ \A q \in TopicReqs : topicWork[q].op = "create" => topicWork[q].t # w.to

OnTheWay(w) == w.moves /\ "update" \notin w.met => Way(w) \/ Lost(w)

IdsDiffer == \A r, q \in TopicReqs :
  r # q /\ topicWork[r].op = "create" => topicWork[q].t # topicWork[r].t

TopicInv ==
  /\ TopicTypeOK
  /\ \A t \in There : Hangs(parent[t])
  /\ tagged \subseteq There
  /\ IdsDiffer
  /\ \A r \in TopicReqs : TopicSound(topicWork[r]) /\ OnTheWay(topicWork[r])

LEMMA NoTopicWorkIsNone ==
  /\ NoTopicWork \in TopicWorks /\ NoTopicWork.op = "none" /\ NoTopicWork.pc = "idle"
  /\ NoTopicWork.t = "none" /\ ~ NoTopicWork.moves
BY DEF NoTopicWork, TopicWorks, Places

LEMMA NothingIsSound == TopicSound(NoTopicWork) /\ OnTheWay(NoTopicWork)
BY NoTopicWorkIsNone DEF TopicSound, OnTheWay

LEMMA TopicsBegin == TopicInit => TopicInv
<1> SUFFICES ASSUME TopicInit PROVE TopicInv
  OBVIOUS
<1>1. There = {} /\ TopicTypeOK
  BY NoTopicWorkIsNone DEF TopicInit, TopicTypeOK, There, TopicWorks
<1>2. IdsDiffer
  BY NoTopicWorkIsNone DEF TopicInit, IdsDiffer
<1>3. QED
  BY <1>1, <1>2, NothingIsSound DEF TopicInv, TopicInit

(* A step that changes one request only, and names no new topic unless it  *)
(* is fresh.                                                               *)
LEMMA TopicAsked ==
  ASSUME TopicInv, NEW r \in TopicReqs, NEW w, TopicSound(w), OnTheWay(w),
         w.op = "create" => FreshTopic(w.t),
         w.op # "create" => w.t \in There \union {"none", topicWork[r].t},
         topicWork' = [topicWork EXCEPT ![r] = w],
         UNCHANGED <<parent, name, tagged>>
  PROVE  TopicInv'
<1>1. topicWork \in [TopicReqs -> TopicWorks] /\ w \in TopicWorks
  BY DEF TopicInv, TopicTypeOK, TopicWorks, TopicSound
<1>2. TopicTypeOK'
  BY <1>1 DEF TopicInv, TopicTypeOK, TopicWorks
<1>3. /\ There' = There /\ \A v : (TopicSound(v)' <=> TopicSound(v)) /\ (Way(v)' <=> Way(v))
  BY DEF TopicSound, Way, There, Namesakes, Unchanged
<1>4. IdsDiffer'
  <2> SUFFICES ASSUME NEW a \in TopicReqs, NEW q \in TopicReqs, a # q, topicWork'[a].op = "create"
               PROVE  topicWork'[q].t # topicWork'[a].t
    BY DEF IdsDiffer
  <2>1. CASE a = r
    BY <1>1, <2>1 DEF FreshTopic
  <2>2. CASE q = r
    <3>1. topicWork'[q] = w /\ topicWork'[a] = topicWork[a]
      BY <1>1, <2>2
    <3>2. topicWork[a].t \in TopicIds \ There /\ topicWork[r].t # topicWork[a].t
      BY <2>2, <3>1 DEF TopicInv, TopicSound, IdsDiffer
    <3>3. QED
      BY <3>1, <3>2, TopicIdsAssumption DEF FreshTopic
  <2>3. CASE a # r /\ q # r
    BY <1>1, <2>3 DEF TopicInv, IdsDiffer
  <2>4. QED
    BY <2>1, <2>2, <2>3
<1>5. ASSUME NEW q \in TopicReqs PROVE OnTheWay(topicWork[q])'
  <2>1. ASSUME NEW v, OnTheWay(v), \E x \in TopicReqs : v = topicWork[x] PROVE OnTheWay(v)'
    <3>1. ASSUME Lost(v) PROVE Lost(v)'
      <4>1. w.op = "create" => w.t # v.to
        BY <2>1 DEF FreshTopic
      <4>2. \A x \in TopicReqs : topicWork'[x].op = "create" => topicWork'[x].t # v.to
        BY <1>1, <3>1, <4>1 DEF Lost
      <4>3. QED
        BY <1>3, <3>1, <4>2 DEF Lost
    <3>2. QED
      BY <1>3, <2>1, <3>1 DEF OnTheWay
  <2>2. CASE q = r
    <3>1. topicWork'[q] = w
      BY <1>1, <2>2
    <3>2. ASSUME w.moves, Lost(w) PROVE Lost(w)'
      <4>1. w.op # "create"
        BY <3>2 DEF TopicSound
      <4>2. QED
        BY <1>1, <1>3, <3>2, <4>1 DEF Lost
    <3>3. \A v : v = w => OnTheWay(v)'
      BY <1>3, <3>2 DEF OnTheWay
    <3>4. QED
      BY <3>1, <3>3 DEF OnTheWay, Way, Lost
  <2>3. CASE q # r
    <3>1. topicWork'[q] = topicWork[q] /\ OnTheWay(topicWork[q])
      BY <1>1, <2>3 DEF TopicInv
    <3>2. \A v : v = topicWork[q] => OnTheWay(v)'
      BY <2>1, <3>1
    <3>3. QED
      BY <3>1, <3>2 DEF OnTheWay, Way, Lost
  <2>4. QED
    BY <2>2, <2>3
<1>6. \A q \in TopicReqs : TopicSound(topicWork'[q])
  BY <1>1 DEF TopicInv
<1>7. \A q \in TopicReqs : TopicSound(topicWork[q])'
  BY <1>3, <1>6
<1>8. (\A t \in There : Hangs(parent[t]))' /\ (tagged \subseteq There)'
  BY <1>3 DEF TopicInv, Hangs
<1>9. QED
  BY <1>2, <1>4, <1>5, <1>7, <1>8 DEF TopicInv

(* One row up the tree. *)
LEMMA TopicWalks ==
  ASSUME TopicInv, NEW r \in TopicReqs, WalkUp(r)
  PROVE  TopicInv'
<1> DEFINE v == topicWork[r]
<1>0. /\ v \in TopicWorks /\ TopicSound(v) /\ OnTheWay(v) /\ v.pc = "walk" /\ v.op = "update"
      /\ v.cursor # v.t /\ v.t \in TopicIds
      /\ UNCHANGED <<parent, name, tagged>>
      /\ topicWork \in [TopicReqs -> TopicWorks]
      /\ parent \in [TopicIds -> Places \union {"gone"}]
  BY DEF WalkUp, TopicInv, TopicSound, TopicTypeOK, TopicWorks
<1>1. ASSUME v.cursor = "top", Namesakes(v.t, v.to, v.as) = {},
             topicWork' = [topicWork EXCEPT ![r].pc = "commit"]
      PROVE  TopicInv'
  <2> DEFINE w == [v EXCEPT !.pc = "commit"]
  <2>1. w \in TopicWorks /\ w.op = "update" /\ w.t = v.t /\ w.to = v.to /\ w.as = v.as
        /\ w.cursor = "top" /\ w.moves = v.moves /\ w.renames = v.renames /\ w.met = v.met
        /\ w.pc = "commit"
    BY <1>0, <1>1 DEF TopicWorks
  <2>2. topicWork' = [topicWork EXCEPT ![r] = w]
    BY <1>0, <1>1
  <2> HIDE DEF w
  <2>3. TopicSound(w)
    BY <1>0, <1>1, <2>1 DEF TopicSound, Unchanged
  <2>4. OnTheWay(w)
    BY <1>0, <1>1, <2>1 DEF OnTheWay, Way, Lost
  <2>5. QED
    BY <1>0, <2>1, <2>2, <2>3, <2>4, TopicAsked
<1>2. ASSUME v.cursor \in There,
             topicWork' = [topicWork EXCEPT ![r].cursor = parent[v.cursor]]
      PROVE  TopicInv'
  <2> DEFINE c == v.cursor
             w == [v EXCEPT !.cursor = parent[c]]
  <2>1. w \in TopicWorks /\ w.op = "update" /\ w.t = v.t /\ w.to = v.to /\ w.as = v.as
        /\ w.cursor = parent[c] /\ w.moves = v.moves /\ w.renames = v.renames /\ w.met = v.met
        /\ w.pc = "walk"
    BY <1>0, <1>2 DEF TopicWorks, There
  <2>2. topicWork' = [topicWork EXCEPT ![r] = w]
    BY <1>0, <1>2
  <2> HIDE DEF w
  <2>3. TopicSound(w)
    BY <1>0, <2>1 DEF TopicSound, Unchanged
  <2>4. ASSUME Way(v) PROVE Way(w)
    <3>1. PICK A \in SUBSET There : /\ v.t \notin A
                                    /\ v.to \in A \union {c}
                                    /\ \A a \in A : parent[a] \in A \union {c}
      BY <2>4 DEF Way
    <3> DEFINE B == A \union {c}
    <3>2. /\ B \in SUBSET There /\ v.t \notin B /\ v.to \in B \union {parent[c]}
          /\ \A a \in B : parent[a] \in B \union {parent[c]}
      BY <1>0, <1>2, <3>1
    <3> HIDE DEF B
    <3>3. QED
      BY <2>1, <3>2 DEF Way
  <2>5. OnTheWay(w)
    BY <1>0, <2>1, <2>4 DEF OnTheWay, Lost
  <2>6. QED
    BY <1>0, <2>1, <2>2, <2>3, <2>5, TopicAsked
<1>3. QED
  BY <1>1, <1>2 DEF WalkUp

(* Every request decides on what it reads.                                 *)
LEMMA TopicPrepares ==
  ASSUME TopicInv, NEW r \in TopicReqs, NEW w, Asks(r, w), TopicSound(w), ~ w.moves \/ Way(w),
         w.op = "create" => FreshTopic(w.t),
         w.op # "create" => w.t \in There
  PROVE  TopicInv'
BY TopicAsked DEF Asks, OnTheWay

LEMMA TopicAsks ==
  ASSUME TopicInv, NEW r \in TopicReqs, TopicStep(r)
  PROVE  \/ TopicInv' /\ UNCHANGED <<parent, name, tagged>>
         \/ CommitCreateTopic(r) \/ CommitUpdateTopic(r) \/ CommitDeleteTopic(r)
<1>0. /\ parent \in [TopicIds -> Places \union {"gone"}]
      /\ name \in [TopicIds -> TopicNames \union {"none"}]
  BY DEF TopicInv, TopicTypeOK
<1>1. ASSUME NEW t \in TopicIds, NEW p \in Places, NEW n \in TopicNames, AskCreateTopic(r, t, p, n)
      PROVE  TopicInv' /\ UNCHANGED <<parent, name, tagged>>
  <2> DEFINE w == [NoTopicWork EXCEPT !.op = "create", !.pc = "commit", !.t = t, !.to = p, !.as = n]
  <2>1. Asks(r, w) /\ FreshTopic(t) /\ t \notin There /\ Namesakes(t, p, n) = {}
    BY <1>1 DEF AskCreateTopic, FreshTopic
  <2>2. /\ w \in TopicWorks /\ w.op = "create" /\ w.pc = "commit" /\ w.t = t /\ w.to = p
        /\ w.as = n /\ ~ w.moves
    BY DEF NoTopicWork, TopicWorks, Places
  <2> HIDE DEF w
  <2>3. TopicSound(w)
    BY <2>1, <2>2 DEF TopicSound
  <2>4. QED
    BY <2>1, <2>2, <2>3, TopicPrepares DEF Asks
<1>2. ASSUME NEW t \in TopicIds, NEW n \in TopicNames, AskRename(r, t, n)
      PROVE  TopicInv' /\ UNCHANGED <<parent, name, tagged>>
  <2> DEFINE w == [NoTopicWork EXCEPT !.op = "update", !.pc = "commit", !.t = t, !.to = parent[t],
                                      !.as = n, !.renames = n # name[t]]
  <2>1. Asks(r, w) /\ t \in There /\ Namesakes(t, parent[t], n) = {} /\ parent[t] \in Places
    BY <1>0, <1>2 DEF AskRename, There
  <2>2. /\ w \in TopicWorks /\ w.op = "update" /\ w.pc = "commit" /\ w.t = t /\ w.to = parent[t]
        /\ w.as = n /\ ~ w.moves /\ w.renames = (n # name[t])
    BY <2>1 DEF NoTopicWork, TopicWorks, Places
  <2> HIDE DEF w
  <2>3. TopicSound(w)
    BY <2>1, <2>2 DEF TopicSound
  <2>4. QED
    BY <2>1, <2>2, <2>3, TopicPrepares DEF Asks
<1>3. ASSUME NEW t \in TopicIds, NEW p \in Places, AskMove(r, t, p)
      PROVE  TopicInv' /\ UNCHANGED <<parent, name, tagged>>
  <2> DEFINE w == [NoTopicWork EXCEPT !.op = "update", !.pc = "walk", !.t = t, !.to = p,
                                      !.as = name[t], !.cursor = p, !.moves = p # parent[t]]
  <2>1. Asks(r, w) /\ t \in There
    BY <1>3 DEF AskMove
  <2>2. /\ w \in TopicWorks /\ w.op = "update" /\ w.pc = "walk" /\ w.t = t /\ w.to = p
        /\ w.as = name[t] /\ w.cursor = p /\ w.moves = (p # parent[t])
    BY <1>0 DEF NoTopicWork, TopicWorks, Places
  <2> HIDE DEF w
  <2>3. TopicSound(w)
    BY <2>1, <2>2 DEF TopicSound
  <2>4. Way(w)
    <3>1. {} \in SUBSET There
      OBVIOUS
    <3>2. QED
      BY <2>2, <3>1 DEF Way
  <2>5. QED
    BY <2>1, <2>2, <2>3, <2>4, TopicPrepares DEF Asks
<1>4. ASSUME NEW t \in TopicIds, AskDeleteTopic(r, t)
      PROVE  TopicInv' /\ UNCHANGED <<parent, name, tagged>>
  <2> DEFINE w == [NoTopicWork EXCEPT !.op = "delete", !.pc = "commit", !.t = t]
  <2>1. Asks(r, w) /\ t \in There
    BY <1>4 DEF AskDeleteTopic
  <2>2. w \in TopicWorks /\ w.op = "delete" /\ w.pc = "commit" /\ w.t = t /\ ~ w.moves
    BY DEF NoTopicWork, TopicWorks, Places
  <2> HIDE DEF w
  <2>3. TopicSound(w)
    BY <2>2 DEF TopicSound
  <2>4. QED
    BY <2>1, <2>2, <2>3, TopicPrepares DEF Asks
<1>5. DropTopic(r) => TopicInv' /\ UNCHANGED <<parent, name, tagged>>
  BY NoTopicWorkIsNone, NothingIsSound, TopicAsked DEF DropTopic
<1>6. WalkUp(r) => TopicInv' /\ UNCHANGED <<parent, name, tagged>>
  BY TopicWalks DEF WalkUp
<1>7. QED
  BY <1>1, <1>2, <1>3, <1>4, <1>5, <1>6 DEF TopicStep

(* What the others have when r has committed: they have met it.            *)
TopicMet(r) ==
  /\ topicWork' \in [TopicReqs -> TopicWorks]
  /\ topicWork'[r] = NoTopicWork
  /\ \A q \in TopicReqs \ {r} : LET w == topicWork[q] IN
       /\ topicWork'[q].op = w.op /\ topicWork'[q].pc = w.pc /\ topicWork'[q].t = w.t
       /\ topicWork'[q].to = w.to /\ topicWork'[q].as = w.as /\ topicWork'[q].cursor = w.cursor
       /\ topicWork'[q].moves = w.moves /\ topicWork'[q].renames = w.renames
       /\ w.op # "none" => topicWork'[q].met = w.met \union {topicWork[r].op}

LEMMA TopicCommits ==
  ASSUME TopicInv, NEW r \in TopicReqs, Commits(r), topicWork[r].op # "none"
  PROVE  TopicMet(r)
<1>1. /\ \A q \in TopicReqs : topicWork[q] \in TopicWorks /\ TopicSound(topicWork[q])
      /\ topicWork[r].op \in {"create", "update", "delete"}
  BY DEF TopicInv, TopicSound, TopicWorks
<1>2. \A w \in TopicWorks, op \in {"create", "update", "delete"} :
        LET v == [w EXCEPT !.met = @ \union {op}] IN
        /\ v \in TopicWorks
        /\ v.op = w.op /\ v.pc = w.pc /\ v.t = w.t /\ v.to = w.to /\ v.as = w.as
        /\ v.cursor = w.cursor /\ v.moves = w.moves /\ v.renames = w.renames
        /\ v.met = w.met \union {op}
  BY DEF TopicWorks
<1>3. /\ topicWork' \in [TopicReqs -> TopicWorks] /\ topicWork'[r] = NoTopicWork
      /\ \A q \in TopicReqs \ {r} :
           topicWork'[q] = IF topicWork[q].pc = "idle" THEN topicWork[q]
                           ELSE [topicWork[q] EXCEPT !.met = @ \union {topicWork[r].op}]
  BY <1>1, <1>2, NoTopicWorkIsNone DEF Commits
<1>4. ASSUME NEW q \in TopicReqs \ {r}
      PROVE  LET w == topicWork[q] IN
       /\ topicWork'[q].op = w.op /\ topicWork'[q].pc = w.pc /\ topicWork'[q].t = w.t
       /\ topicWork'[q].to = w.to /\ topicWork'[q].as = w.as /\ topicWork'[q].cursor = w.cursor
       /\ topicWork'[q].moves = w.moves /\ topicWork'[q].renames = w.renames
       /\ w.op # "none" => topicWork'[q].met = w.met \union {topicWork[r].op}
  <2>1. CASE topicWork[q].pc = "idle"
    BY <1>1, <1>3, <2>1 DEF TopicSound
  <2>2. CASE topicWork[q].pc # "idle"
    <3>1. topicWork'[q] = [topicWork[q] EXCEPT !.met = @ \union {topicWork[r].op}]
      BY <1>3, <2>2
    <3>2. QED
      BY <1>1, <1>2, <3>1
  <2>3. QED
    BY <2>1, <2>2
<1>5. QED
  BY <1>3, <1>4 DEF TopicMet

(* What a commit has to keep for the others; a deletion leaves what is     *)
(* still there as it was.                                                  *)
LEMMA TopicOthers ==
  ASSUME TopicInv, NEW r \in TopicReqs, TopicMet(r), topicWork[r].op # "none",
         TopicTypeOK', \A t \in There' : Hangs(parent[t])', tagged' \subseteq There',
         \A q \in TopicReqs \ {r} : topicWork[q].op = "create" => topicWork[q].t \notin There',
         topicWork[r].op = "delete" =>
           /\ There' \subseteq There
           /\ \A t \in There' : parent'[t] = parent[t] /\ name'[t] = name[t],
         topicWork[r].op # "update" =>
           \A v \in TopicWorks, q \in TopicReqs \ {r} :
             v = topicWork[q] /\ v.moves /\ (Way(v) \/ Lost(v)) => Way(v)' \/ Lost(v)'
  PROVE  TopicInv' /\ topicWork'[r].pc = "idle"
<1> DEFINE op == topicWork[r].op
<1>0. op \in {"create", "update", "delete"}
  BY DEF TopicInv, TopicSound, TopicWorks
<1>1. TopicSound(topicWork[r])' /\ OnTheWay(topicWork[r])' /\ topicWork'[r].pc = "idle"
  BY NoTopicWorkIsNone DEF TopicMet, TopicSound, OnTheWay
<1>2. ASSUME NEW q \in TopicReqs \ {r} PROVE TopicSound(topicWork[q])' /\ OnTheWay(topicWork[q])'
  <2> DEFINE w == topicWork[q]
             v == topicWork'[q]
  <2>1. TopicSound(w) /\ OnTheWay(w) /\ v \in TopicWorks /\ w \in TopicWorks
    BY DEF TopicInv, TopicMet, TopicSound
  <2>2. /\ v.op = w.op /\ v.pc = w.pc /\ v.t = w.t /\ v.to = w.to /\ v.as = w.as
        /\ v.cursor = w.cursor /\ v.moves = w.moves /\ v.renames = w.renames
        /\ w.op # "none" => v.met = w.met \union {op}
    BY DEF TopicMet
  <2>3. ASSUME op = "delete", NEW t, NEW p, NEW n PROVE Namesakes(t, p, n)' \subseteq Namesakes(t, p, n)
    BY <2>3 DEF Namesakes
  <2>4. Changes = {"create", "update"}
    BY DEF Changes
  <2>5. v.op = "create" =>
          /\ v.t \notin There'
          /\ v.met \intersect Changes = {} => \A t, p, n : t = v.t /\ p = v.to /\ n = v.as => Namesakes(t, p, n)' = {}
    <3>1. SUFFICES ASSUME v.op = "create", v.met \intersect Changes = {}
                   PROVE  Namesakes(w.t, w.to, w.as) = {} /\ op = "delete"
      BY <2>2, <2>3
    <3>2. QED
      BY <1>0, <2>1, <2>2, <2>4, <3>1 DEF TopicSound, Unchanged
  <2>6. v.op = "update" /\ v.met \intersect Changes = {} /\ v.t \in There' =>
          /\ ~ v.moves => parent'[v.t] = v.to
          /\ ~ v.renames => name'[v.t] = v.as
          /\ v.pc = "commit" => \A t, p, n : t = v.t /\ p = v.to /\ n = v.as => Namesakes(t, p, n)' = {}
    <3>1. SUFFICES ASSUME v.op = "update", v.met \intersect Changes = {}, v.t \in There'
                   PROVE  /\ ~ v.moves => parent'[v.t] = v.to
                          /\ ~ v.renames => name'[v.t] = v.as
                          /\ v.pc = "commit" => Namesakes(w.t, w.to, w.as) = {} /\ op = "delete"
      BY <2>2, <2>3
    <3>2. op = "delete" /\ Unchanged(w) /\ w.t \in There
      BY <1>0, <2>1, <2>2, <2>4, <3>1 DEF Unchanged
    <3>3. QED
      BY <2>1, <2>2, <3>1, <3>2 DEF TopicSound
  <2>7. TopicSound(topicWork[q])'
    <3>1. /\ v.pc = "idle" <=> v.op = "none"
          /\ v.pc = "walk" => v.op = "update"
          /\ v.op # "none" => v.t \in TopicIds
          /\ v.moves => v.op = "update"
          /\ v.moves /\ v.pc = "commit" => v.cursor = "top"
      BY <2>1, <2>2 DEF TopicSound
    <3>2. QED
      BY <2>1, <2>5, <2>6, <3>1 DEF TopicSound, Unchanged, Namesakes
  <2>8. OnTheWay(topicWork[q])'
    <3>1. SUFFICES ASSUME v.moves, "update" \notin v.met PROVE (Way(topicWork[q]) \/ Lost(topicWork[q]))'
      BY DEF OnTheWay
    <3>2. op # "update" /\ w.moves /\ "update" \notin w.met
      BY <2>1, <2>2, <3>1 DEF TopicSound
    <3>3. \A u \in TopicWorks : u = w => Way(u)' \/ Lost(u)'
      BY <2>1, <3>2 DEF OnTheWay
    <3>4. \A u \in TopicWorks : u = w => u.t = v.t /\ u.to = v.to /\ u.cursor = v.cursor
      BY <2>2
    <3>5. QED
      BY <2>1, <3>3, <3>4 DEF Way, Lost
  <2>9. QED
    BY <2>7, <2>8
<1>3. IdsDiffer'
  <2> SUFFICES ASSUME NEW a \in TopicReqs, NEW q \in TopicReqs, a # q, topicWork'[a].op = "create"
               PROVE  topicWork'[q].t # topicWork'[a].t
    BY DEF IdsDiffer
  <2>1. a # r /\ topicWork[a].op = "create" /\ topicWork'[a].t = topicWork[a].t
        /\ topicWork[a].t \in TopicIds
    BY NoTopicWorkIsNone DEF TopicMet, TopicInv, TopicSound
  <2>2. CASE q = r
    BY <2>1, <2>2, NoTopicWorkIsNone, TopicIdsAssumption DEF TopicMet
  <2>3. CASE q # r
    BY <2>1, <2>3 DEF TopicInv, IdsDiffer, TopicMet
  <2>4. QED
    BY <2>2, <2>3
<1>4. QED
  BY <1>1, <1>2, <1>3 DEF TopicInv

LEMMA TopicCreated ==
  ASSUME TopicInv, NEW r \in TopicReqs, CommitCreateTopic(r)
  PROVE  /\ TopicInv' /\ topicWork[r].op = "create" /\ topicWork[r].pc = "commit"
         /\ topicWork'[r].pc = "idle"
         /\ NoLoop => NoLoop'
         /\ SiblingsDiffer => SiblingsDiffer' \/ ~ Unchanged(topicWork[r])
<1> DEFINE w == topicWork[r]
<1>0. /\ w \in TopicWorks /\ TopicSound(w) /\ w.op = "create" /\ w.pc = "commit" /\ Commits(r)
      /\ Hangs(w.to) /\ w.t \in TopicIds \ There /\ w.to \in Places
      /\ parent' = [parent EXCEPT ![w.t] = w.to] /\ name' = [name EXCEPT ![w.t] = w.as]
      /\ tagged' = tagged
      /\ parent \in [TopicIds -> Places \union {"gone"}]
      /\ name \in [TopicIds -> TopicNames \union {"none"}]
      /\ "gone" \notin Places /\ "top" \notin TopicIds /\ "gone" \notin TopicIds
  BY TopicIdsAssumption DEF CommitCreateTopic, TopicInv, TopicSound, TopicWorks, TopicTypeOK, Places
<1>1. TopicMet(r)
  BY <1>0, TopicCommits
<1>2. There' = There \union {w.t}
  BY <1>0 DEF There
<1>3. \A t \in There : t # w.t /\ parent'[t] = parent[t] /\ name'[t] = name[t] /\ Hangs(parent[t])
  BY <1>0 DEF TopicInv, There
<1>4. TopicTypeOK'
  <2>1. w.as \in TopicNames \union {"none"}
    BY <1>0 DEF TopicWorks
  <2>2. QED
    BY <1>0, <1>1, <2>1 DEF TopicInv, TopicTypeOK, TopicMet, TopicWorks
<1>5. (\A t \in There' : Hangs(parent[t])') /\ tagged' \subseteq There'
  BY <1>0, <1>2, <1>3 DEF TopicInv, Hangs
<1>6. \A q \in TopicReqs \ {r} : topicWork[q].op = "create" => topicWork[q].t \notin There'
  BY <1>0, <1>2 DEF TopicInv, IdsDiffer, TopicSound
<1>7. ASSUME NEW v \in TopicWorks, NEW q \in TopicReqs \ {r}, v = topicWork[q], Way(v) \/ Lost(v)
      PROVE  Way(v)' \/ Lost(v)'
  <2>1. CASE Way(v)
    <3>1. PICK A \in SUBSET There : /\ v.t \notin A
                                    /\ v.to \in A \union {v.cursor}
                                    /\ \A a \in A : parent[a] \in A \union {v.cursor}
      BY <2>1 DEF Way
    <3>2. A \in SUBSET There' /\ \A a \in A : parent'[a] \in A \union {v.cursor}
      BY <1>2, <1>3, <3>1
    <3>3. QED
      BY <3>1, <3>2 DEF Way
  <2>2. CASE Lost(v)
    <3>1. v.to # w.t
      BY <1>0, <2>2 DEF Lost
    <3>2. \A x \in TopicReqs : topicWork'[x].op = "create" => x # r /\ topicWork[x].op = "create"
                                                              /\ topicWork'[x].t = topicWork[x].t
      BY <1>1, NoTopicWorkIsNone DEF TopicMet
    <3>3. QED
      BY <1>2, <2>2, <3>1, <3>2 DEF Lost
  <2>3. QED
    BY <1>7, <2>1, <2>2
<1>8. TopicInv' /\ topicWork'[r].pc = "idle"
  BY <1>0, <1>1, <1>4, <1>5, <1>6, <1>7, TopicOthers
<1>9. ASSUME NoLoop PROVE NoLoop'
  <2> SUFFICES ASSUME NEW S \in SUBSET TopicIds, S # {}
               PROVE  \E t \in S : parent'[t] \notin S
    BY DEF NoLoop
  <2>1. \A t \in TopicIds \ {w.t} : parent'[t] = parent[t] /\ parent[t] # w.t
    BY <1>0, <1>3 DEF There, Hangs
  <2>2. CASE S \ {w.t} = {}
    BY <1>0, <2>2 DEF Hangs
  <2>3. CASE S \ {w.t} # {}
    <3>1. PICK t \in S \ {w.t} : parent[t] \notin S \ {w.t}
      BY <1>9, <2>3 DEF NoLoop
    <3>2. QED
      BY <2>1, <3>1
  <2>4. QED
    BY <2>2, <2>3
<1>10. ASSUME SiblingsDiffer, Unchanged(w) PROVE SiblingsDiffer'
  <2>1. Namesakes(w.t, w.to, w.as) = {}
    BY <1>0, <1>10 DEF TopicSound
  <2>2. parent'[w.t] = w.to /\ name'[w.t] = w.as
    BY <1>0
  <2>3. \A t \in There : ~ (parent[t] = w.to /\ name[t] = w.as)
    BY <1>3, <2>1 DEF Namesakes
  <2>4. \A t, u \in There : t # u => ~ (parent[u] = parent[t] /\ name[u] = name[t])
    BY <1>10 DEF SiblingsDiffer, Namesakes
  <2>5. \A t, u \in There' : t # u => ~ (parent'[u] = parent'[t] /\ name'[u] = name'[t])
    BY <1>2, <1>3, <2>2, <2>3, <2>4
  <2>6. QED
    BY <2>5 DEF SiblingsDiffer, Namesakes
<1>11. QED
  BY <1>0, <1>8, <1>9, <1>10

LEMMA TopicDeleted ==
  ASSUME TopicInv, NEW r \in TopicReqs, CommitDeleteTopic(r)
  PROVE  TopicInv' /\ (NoLoop => NoLoop') /\ (SiblingsDiffer => SiblingsDiffer')
<1> DEFINE w == topicWork[r]
<1>0. /\ w \in TopicWorks /\ TopicSound(w) /\ w.op = "delete" /\ w.pc = "commit" /\ Commits(r)
      /\ w.t \in TopicIds
      /\ \A u \in There : parent[u] # w.t
      /\ parent' = [parent EXCEPT ![w.t] = "gone"] /\ name' = [name EXCEPT ![w.t] = "none"]
      /\ tagged' = tagged \ {w.t}
      /\ parent \in [TopicIds -> Places \union {"gone"}]
      /\ name \in [TopicIds -> TopicNames \union {"none"}]
      /\ "top" \notin TopicIds /\ "gone" \notin TopicIds
  BY TopicIdsAssumption DEF CommitDeleteTopic, TopicInv, TopicSound, TopicWorks, TopicTypeOK
<1>1. TopicMet(r)
  BY <1>0, TopicCommits
<1>2. There' = There \ {w.t}
  BY <1>0 DEF There
<1>3. \A t \in TopicIds \ {w.t} : parent'[t] = parent[t] /\ name'[t] = name[t]
  BY <1>0
<1>4. TopicTypeOK'
  BY <1>0, <1>1 DEF TopicInv, TopicTypeOK, TopicMet, TopicWorks
<1>5. \A t \in There' : t \in There /\ t \in TopicIds \ {w.t}
  BY <1>2 DEF There
<1>6. (\A t \in There' : Hangs(parent[t])') /\ tagged' \subseteq There'
  BY <1>0, <1>2, <1>3, <1>5 DEF TopicInv, Hangs
<1>7. \A q \in TopicReqs \ {r} : topicWork[q].op = "create" => topicWork[q].t \notin There
  BY DEF TopicInv, TopicSound
<1>8. ASSUME NEW v \in TopicWorks, NEW q \in TopicReqs \ {r}, v = topicWork[q], Way(v) \/ Lost(v)
      PROVE  Way(v)' \/ Lost(v)'
  <2>0. \A x \in TopicReqs : topicWork'[x].op = "create" => x # r /\ topicWork[x].op = "create"
                                                            /\ topicWork'[x].t = topicWork[x].t
    BY <1>1, NoTopicWorkIsNone DEF TopicMet
  <2>1. CASE Lost(v)
    BY <1>2, <2>0, <2>1 DEF Lost
  <2>2. CASE Way(v)
    <3>1. PICK A \in SUBSET There : /\ v.t \notin A
                                    /\ v.to \in A \union {v.cursor}
                                    /\ \A a \in A : parent[a] \in A \union {v.cursor}
      BY <2>2 DEF Way
    <3> DEFINE B == A \ {w.t}
    <3>2. /\ B \in SUBSET There' /\ v.t \notin B
          /\ \A a \in B : parent'[a] \in B \union {v.cursor}
      BY <1>0, <1>2, <1>3, <1>5, <3>1
    <3>3. CASE v.to \in B \union {v.cursor}
      <4> HIDE DEF B
      <4>1. QED
        BY <3>2, <3>3 DEF Way
    <3>4. CASE v.to \notin B \union {v.cursor}
      <4>1. v.to = w.t /\ v.to \in There
        BY <3>1, <3>4
      <4>2. v.to \notin There' \union {"top"}
        BY <1>0, <1>2, <4>1
      <4>3. \A x \in TopicReqs : topicWork'[x].op = "create" => topicWork'[x].t # v.to
        BY <1>7, <2>0, <4>1
      <4>4. QED
        BY <4>2, <4>3 DEF Lost
    <3>5. QED
      BY <3>3, <3>4
  <2>3. QED
    BY <1>8, <2>1, <2>2
<1>9. TopicInv'
  BY <1>0, <1>1, <1>2, <1>3, <1>4, <1>5, <1>6, <1>7, <1>8, TopicOthers
<1>10. ASSUME NoLoop PROVE NoLoop'
  BY <1>0, <1>3, <1>10 DEF NoLoop
<1>11. ASSUME SiblingsDiffer PROVE SiblingsDiffer'
  BY <1>3, <1>5, <1>11 DEF SiblingsDiffer, Namesakes
<1>12. QED
  BY <1>9, <1>10, <1>11

(* A topic is renamed or moved: a move that met no other cannot have been  *)
(* led around a loop it closes.                                            *)
LEMMA TopicUpdated ==
  ASSUME TopicInv, NEW r \in TopicReqs, CommitUpdateTopic(r)
  PROVE  /\ TopicInv' /\ topicWork[r].op = "update" /\ topicWork[r].pc = "commit"
         /\ topicWork'[r].pc = "idle"
         /\ NoLoop => NoLoop' \/ "update" \in topicWork[r].met
         /\ SiblingsDiffer => SiblingsDiffer' \/ ~ Unchanged(topicWork[r])
<1> DEFINE w == topicWork[r]
<1>0. /\ w \in TopicWorks /\ TopicSound(w) /\ OnTheWay(w)
      /\ w.op = "update" /\ w.pc = "commit" /\ Commits(r)
      /\ w.t \in There /\ w.t \in TopicIds /\ w.to \in Places
      /\ w.moves => Hangs(w.to)
      /\ parent' = IF w.moves THEN [parent EXCEPT ![w.t] = w.to] ELSE parent
      /\ name' = IF w.renames THEN [name EXCEPT ![w.t] = w.as] ELSE name
      /\ tagged' = tagged
      /\ parent \in [TopicIds -> Places \union {"gone"}]
      /\ name \in [TopicIds -> TopicNames \union {"none"}]
      /\ w.as \in TopicNames \union {"none"}
      /\ "gone" \notin Places /\ "top" \notin TopicIds
  BY TopicIdsAssumption DEF CommitUpdateTopic, TopicInv, TopicSound, TopicWorks, TopicTypeOK, Places
<1>1. TopicMet(r)
  BY <1>0, TopicCommits
<1>2. There' = There
  BY <1>0 DEF There
<1>3. \A t \in TopicIds \ {w.t} : parent'[t] = parent[t] /\ name'[t] = name[t]
  BY <1>0
<1>4. TopicTypeOK'
  <2>1. parent' \in [TopicIds -> Places \union {"gone"}] /\ name' \in [TopicIds -> TopicNames \union {"none"}]
    BY <1>0
  <2>2. QED
    BY <1>0, <1>1, <2>1 DEF TopicInv, TopicTypeOK, TopicMet, TopicWorks
<1>5. (\A t \in There' : Hangs(parent[t])') /\ tagged' \subseteq There'
  <2>1. \A t \in There : parent'[t] \in {parent[t], w.to}
    BY <1>0
  <2>2. ASSUME NEW t \in There PROVE parent'[t] = "top" \/ parent'[t] \in There
    BY <1>0 DEF TopicInv, Hangs, There
  <2>3. QED
    BY <1>0, <1>2, <2>2 DEF TopicInv, Hangs
<1>6. \A q \in TopicReqs \ {r} : topicWork[q].op = "create" => topicWork[q].t \notin There'
  BY <1>2 DEF TopicInv, TopicSound
<1>7. TopicInv' /\ topicWork'[r].pc = "idle"
  BY <1>0, <1>1, <1>4, <1>5, <1>6, TopicOthers
<1>8. ASSUME NoLoop, "update" \notin w.met PROVE NoLoop'
  <2>1. CASE ~ w.moves
    BY <1>0, <1>8, <2>1 DEF NoLoop
  <2>2. CASE w.moves
    <3>1. w.cursor = "top" /\ (w.to = "top" \/ w.to \in There)
      BY <1>0, <2>2 DEF TopicSound, Hangs
    <3>2. Way(w)
      BY <1>0, <1>8, <2>2, <3>1 DEF OnTheWay, Lost
    <3>3. PICK A \in SUBSET There : /\ w.t \notin A
                                    /\ w.to \in A \union {"top"}
                                    /\ \A a \in A : parent[a] \in A \union {"top"}
      BY <3>1, <3>2 DEF Way
    <3> SUFFICES ASSUME NEW S \in SUBSET TopicIds, S # {}
                 PROVE  \E t \in S : parent'[t] \notin S
      BY DEF NoLoop
    <3>4. CASE w.t \notin S
      BY <1>3, <1>8, <3>4 DEF NoLoop
    <3>5. CASE w.t \in S /\ w.to \notin S
      BY <1>0, <2>2, <3>5
    <3>6. CASE w.t \in S /\ w.to \in S
      <4>1. S \intersect A # {} /\ S \intersect A \in SUBSET TopicIds
        BY <1>0, <3>3, <3>6
      <4>2. PICK t \in S \intersect A : parent[t] \notin S \intersect A
        BY <1>8, <4>1 DEF NoLoop
      <4>3. parent'[t] = parent[t] /\ parent[t] \in A \union {"top"}
        BY <1>3, <3>3, <4>2
      <4>4. QED
        BY <1>0, <4>2, <4>3
    <3>7. QED
      BY <3>4, <3>5, <3>6
  <2>3. QED
    BY <2>1, <2>2
<1>9. ASSUME SiblingsDiffer, Unchanged(w) PROVE SiblingsDiffer'
  <2>1. Namesakes(w.t, w.to, w.as) = {}
    BY <1>0, <1>9 DEF TopicSound
  <2>2. parent'[w.t] = w.to /\ name'[w.t] = w.as
    BY <1>0, <1>9 DEF TopicSound
  <2>3. \A t \in There \ {w.t} : t \in TopicIds \ {w.t} /\ ~ (parent[t] = w.to /\ name[t] = w.as)
    BY <2>1 DEF Namesakes, There
  <2>4. \A t, u \in There : t # u => ~ (parent[u] = parent[t] /\ name[u] = name[t])
    BY <1>9 DEF SiblingsDiffer, Namesakes
  <2>5. \A t, u \in There' : t # u => ~ (parent'[u] = parent'[t] /\ name'[u] = name'[t])
    BY <1>2, <1>3, <2>2, <2>3, <2>4
  <2>6. QED
    BY <2>5 DEF SiblingsDiffer, Namesakes
<1>10. QED
  BY <1>0, <1>7, <1>8, <1>9

LEMMA TopicStays ==
  ASSUME TopicInv, [TopicNext]_topicVars
  PROVE  /\ TopicInv'
         /\ NoLoop => NoLoop' \/ Raced({"update"})
         /\ SiblingsDiffer => SiblingsDiffer' \/ Raced(Changes)
<1> DEFINE Kept == /\ TopicInv'
                   /\ NoLoop => NoLoop' \/ Raced({"update"})
                   /\ SiblingsDiffer => SiblingsDiffer' \/ Raced(Changes)
<1>1. ASSUME TopicInv', UNCHANGED <<parent, name>>
      PROVE  Kept
  BY <1>1 DEF NoLoop, SiblingsDiffer, Namesakes, There
<1>2. ASSUME NEW r \in TopicReqs, CommitCreateTopic(r)
      PROVE  Kept
  BY <1>2, TopicCreated DEF Raced, Unchanged, Changes
<1>3. ASSUME NEW r \in TopicReqs, CommitUpdateTopic(r)
      PROVE  Kept
  BY <1>3, TopicUpdated DEF Raced, Unchanged, Changes
<1>4. ASSUME NEW r \in TopicReqs, CommitDeleteTopic(r)
      PROVE  Kept
  BY <1>4, TopicDeleted
<1>5. ASSUME NEW want \in SUBSET TopicIds, SetTopics(want)
      PROVE  Kept
  <2>1. UNCHANGED <<parent, name, topicWork>> /\ tagged' \subseteq There
    BY <1>5 DEF SetTopics
  <2>2. TopicInv'
    BY <2>1 DEF TopicInv, TopicTypeOK, There, Hangs, IdsDiffer, TopicSound, OnTheWay, Way, Lost,
                Namesakes, Unchanged
  <2>3. QED
    BY <1>1, <2>1, <2>2
<1>6. ASSUME UNCHANGED topicVars
      PROVE  Kept
  <2>1. UNCHANGED <<parent, name, tagged, topicWork>>
    BY <1>6 DEF topicVars
  <2>2. TopicInv'
    BY <2>1 DEF TopicInv, TopicTypeOK, There, Hangs, IdsDiffer, TopicSound, OnTheWay, Way, Lost,
                Namesakes, Unchanged
  <2>3. QED
    BY <1>1, <2>1, <2>2
<1> HIDE DEF Kept
<1>7. ASSUME NEW r \in TopicReqs, TopicStep(r)
      PROVE  Kept
  BY <1>1, <1>2, <1>3, <1>4, <1>7, TopicAsks
<1>8. QED
  BY <1>5, <1>6, <1>7 DEF TopicNext, Kept

(* The invariant behind TreeKept: where a move has walked up to leads from *)
(* its new parent, unless another move was committed                       *)
(* (bank_topic_service.py).                                                *)
THEOREM TopicInvariance == TopicSpec => []TopicInv
BY TopicsBegin, TopicStays, PTL DEF TopicSpec

(* Every variable of the topics has its type.                              *)
THEOREM TopicsTyped == TopicSpec => []TopicTypeOK
<1>1. TopicInv => TopicTypeOK
  BY DEF TopicInv
<1>2. QED
  BY <1>1, TopicInvariance, PTL

(* However many topics and requests there are: nothing hangs below or is   *)
(* tagged with a topic that is gone, a loop is closed only by moves that   *)
(* overlapped, a namesake comes only from changes that did.                *)
THEOREM TopicsStayATree == TopicSpec => TreeKept
<1>1. TopicInv /\ TopicInv' /\ [TopicNext]_topicVars =>
        [ /\ \A t \in There' : Hangs(parent[t])'
          /\ tagged' \subseteq There'
          /\ NoLoop => NoLoop' \/ Raced({"update"})
          /\ SiblingsDiffer => SiblingsDiffer' \/ Raced(Changes) ]_topicVars
  BY TopicStays DEF TopicInv
<1>2. QED
  BY <1>1, TopicInvariance, PTL DEF TopicSpec, TreeKept

---------------------------------------------------------------------------
(***************************************************************************)
(* Difficulty levels. What a request has read still holds for as long as   *)
(* it has met nothing that could have changed it: that is what its record  *)
(* is worth when it commits.                                               *)
(***************************************************************************)
LevelWorks ==
  [op : LevelOps \union {"none"}, l : LevelKeys \union {"none"},
   status : {"keep", "active", "archived"}, make : BOOLEAN,
   clear : SUBSET LevelKeys, items : SUBSET LevelItems, met : SUBSET {"level", "delete", "items"}]

(* Of the levels: the default that is to be replaced is the one there is.  *)
SeesLevels(w) ==
  /\ w.op = "create" => w.clear = Clears(w.l, w.make)
  /\ w.op = "update" => \E make \in BOOLEAN :
       /\ w.make = (make /\ w.l \notin default)
       /\ w.clear = Clears(w.l, make)
       /\ make => w.status = "active" \/ (w.status = "keep" /\ level[w.l] = "active")
       /\ w.status = "archived" => w.l \notin default
  /\ w.op = "delete" => w.l \notin default

LevelSound(w) ==
  /\ w \in LevelWorks
  /\ w.op \notin {"none", "seed"} => Rated # {} /\ w.l \in LevelKeys
  /\ w.op = "delete" => w.l \notin BuiltIn
  /\ w.met \intersect {"level", "delete"} = {} => SeesLevels(w)
  /\ w.op \in {"items", "rerate"} /\ "delete" \notin w.met => w.l \in Rated
  /\ w.op = "delete" /\ "items" \notin w.met => Unused(w.l)

LevelInv ==
  /\ LevelTypeOK
  /\ Rated # {} => BuiltIn \subseteq Rated
  /\ \A r \in LevelReqs : LevelSound(levelWork[r])

LEMMA LevelsBegin == LevelInit => LevelInv
<1> SUFFICES ASSUME LevelInit PROVE LevelInv
  OBVIOUS
<1>1. NoLevelWork \in LevelWorks /\ NoLevelWork.op = "none"
  BY DEF NoLevelWork, LevelWorks, LevelOps
<1>2. LevelSound(NoLevelWork)
  BY <1>1 DEF LevelSound, SeesLevels
<1>3. Rated = {} /\ LevelTypeOK
  BY <1>1 DEF LevelInit, LevelTypeOK, Rated, LevelWorks
<1>4. QED
  BY <1>2, <1>3 DEF LevelInv, LevelInit

(* A request that decides on what it reads. *)
LEMMA LevelDecided ==
  ASSUME LevelInv, NEW r \in LevelReqs, NEW w, Decides(r, w), LevelSound(w)
  PROVE  LevelInv'
<1>1. /\ levelWork' = [levelWork EXCEPT ![r] = w]
      /\ UNCHANGED <<level, default, carries>>
  BY DEF Decides
<1>2. LevelTypeOK'
  BY <1>1 DEF LevelInv, LevelTypeOK, LevelSound, LevelWorks
<1>3. Rated' = Rated /\ \A v : LevelSound(v)' <=> LevelSound(v)
  BY <1>1 DEF LevelSound, SeesLevels, Clears, Rated, Unused
<1>4. \A q \in LevelReqs : LevelSound(levelWork'[q])
  BY <1>1 DEF LevelInv, LevelTypeOK
<1>5. QED
  BY <1>2, <1>3, <1>4 DEF LevelInv

(* Every request decides on what holds as it reads.                        *)
LEMMA LevelAsked ==
  ASSUME LevelInv, NEW r \in LevelReqs, LevelStep(r)
  PROVE  \/ \E w : Decides(r, w) /\ LevelSound(w)
         \/ SeedLevels(r) \/ CommitLevel(r) \/ CommitDelete(r) \/ CommitItems(r) \/ DropLevel(r)
<1>0. level \in [LevelKeys -> {"none", "active", "archived"}] /\ default \subseteq LevelKeys
  BY DEF LevelInv, LevelTypeOK
<1> DEFINE Sound == \E w : Decides(r, w) /\ LevelSound(w)
<1> USE DEF NoLevelWork, LevelWorks, LevelOps, LevelSound, SeesLevels, Rated, Offered
<1>1. FindsNone(r) => Sound
  <2> DEFINE w == [NoLevelWork EXCEPT !.op = "seed"]
  <2>1. LevelSound(w)
    OBVIOUS
  <2>2. QED
    BY <2>1 DEF FindsNone
<1>2. ASSUME NEW l \in LevelKeys, NEW make \in BOOLEAN, AskCreateLevel(r, l, make)
      PROVE  Sound
  <2> DEFINE w == [NoLevelWork EXCEPT !.op = "create", !.l = l, !.make = make,
                                      !.clear = Clears(l, make)]
  <2>1. LevelSound(w)
    BY <1>0, <1>2 DEF AskCreateLevel, Clears
  <2>2. QED
    BY <1>2, <2>1 DEF AskCreateLevel
<1>3. ASSUME NEW l \in LevelKeys, NEW to \in {"active", "archived"}, NEW make \in BOOLEAN,
             AskUpdateLevel(r, l, to, make)
      PROVE  Sound
  <2> DEFINE w == [NoLevelWork EXCEPT !.op = "update", !.l = l,
                      !.status = IF to = level[l] THEN "keep" ELSE to,
                      !.make = make /\ l \notin default, !.clear = Clears(l, make)]
  <2>1. LevelSound(w)
    <3>1. w \in LevelWorks /\ w.op = "update" /\ w.l = l
      BY <1>0 DEF Clears
    <3>2. SeesLevels(w)
      BY <1>0, <1>3 DEF AskUpdateLevel, MayBecome
    <3>3. Rated # {}
      BY <1>3 DEF AskUpdateLevel
    <3> HIDE DEF w, SeesLevels
    <3>4. QED
      BY <3>1, <3>2, <3>3
  <2>2. Decides(r, w)
    BY <1>3 DEF AskUpdateLevel
  <2> HIDE DEF w, LevelSound
  <2>3. QED
    BY <2>1, <2>2
<1>4. ASSUME NEW l \in LevelKeys, AskDeleteLevel(r, l)
      PROVE  Sound
  <2> DEFINE w == [NoLevelWork EXCEPT !.op = "delete", !.l = l]
  <2>1. LevelSound(w)
    BY <1>4 DEF AskDeleteLevel
  <2>2. QED
    BY <1>4, <2>1 DEF AskDeleteLevel
<1>5. ASSUME NEW new \in SUBSET LevelItems, NEW raw \in LevelKeys \union {"none"},
             AskItems(r, new, raw)
      PROVE  Sound
  <2>1. PICK l \in Resolved(raw) :
          Decides(r, [NoLevelWork EXCEPT !.op = "items", !.l = l, !.items = new])
    BY <1>5 DEF AskItems
  <2>2. l \in Offered
    BY DEF Resolved
  <2>3. LevelSound([NoLevelWork EXCEPT !.op = "items", !.l = l, !.items = new])
    BY <2>2
  <2>4. QED
    BY <2>1, <2>3
<1>6. ASSUME NEW i \in LevelItems, NEW l \in LevelKeys, AskRerate(r, i, l)
      PROVE  Sound
  <2> DEFINE w == [NoLevelWork EXCEPT !.op = "rerate", !.l = l, !.items = {i}]
  <2>1. LevelSound(w)
    BY <1>6 DEF AskRerate
  <2>2. QED
    BY <1>6, <2>1 DEF AskRerate
<1> HIDE DEF Sound
<1>7. QED
  BY <1>1, <1>2, <1>3, <1>4, <1>5, <1>6 DEF LevelStep, Sound

(* The requests in flight after r has settled: what they have met grows.   *)
LEMMA LevelSettled ==
  ASSUME LevelInv, NEW r \in LevelReqs, Settles(r), levelWork[r].op # "none"
  PROVE  /\ levelWork' \in [LevelReqs -> LevelWorks]
         /\ levelWork'[r] = NoLevelWork
         /\ \A q \in LevelReqs \ {r} :
              \/ levelWork'[q] = levelWork[q] /\ levelWork[q].op = "none"
              \/ levelWork'[q] = [levelWork[q] EXCEPT !.met = @ \union Kind(levelWork[r].op)]
<1>1. NoLevelWork \in LevelWorks
  BY DEF NoLevelWork, LevelWorks, LevelOps
<1>2. \A q \in LevelReqs : levelWork[q] \in LevelWorks
  BY DEF LevelInv, LevelSound
<1>3. \A op : Kind(op) \subseteq {"level", "delete", "items"}
  BY DEF Kind
<1>4. \A w \in LevelWorks : \A op : [w EXCEPT !.met = @ \union Kind(op)] \in LevelWorks
  BY <1>3 DEF LevelWorks
<1>5. QED
  BY <1>1, <1>2, <1>4 DEF Settles

LEMMA LevelMet ==
  ASSUME NEW w, NEW op
  PROVE  LET v == [w EXCEPT !.met = @ \union Kind(op)] IN
         w \in LevelWorks =>
           /\ v.op = w.op /\ v.l = w.l /\ v.status = w.status /\ v.make = w.make
           /\ v.clear = w.clear /\ v.items = w.items
           /\ v.met = w.met \union Kind(op)
BY DEF LevelWorks

(* Seeding: nothing else is under way before there are levels.             *)
LEMMA LevelSeeded ==
  ASSUME LevelInv, NEW r \in LevelReqs, SeedLevels(r)
  PROVE  LevelInv' /\ (OneDefault => OneDefault') /\ (EveryOneRated => EveryOneRated')
<1>0. /\ levelWork[r].op = "seed" /\ Settles(r) /\ carries' = carries
      /\ level \in [LevelKeys -> {"none", "active", "archived"}] /\ default \subseteq LevelKeys
  BY DEF SeedLevels, LevelInv, LevelTypeOK
<1>1. /\ levelWork' \in [LevelReqs -> LevelWorks] /\ levelWork'[r] = NoLevelWork
      /\ \A q \in LevelReqs \ {r} :
           \/ levelWork'[q] = levelWork[q] /\ levelWork[q].op = "none"
           \/ levelWork'[q] = [levelWork[q] EXCEPT !.met = @ \union Kind("seed")]
  BY <1>0, LevelSettled
<1>2. \A q \in LevelReqs \ {r} : levelWork'[q] = levelWork[q]
  <2>1. \A q \in LevelReqs : [levelWork[q] EXCEPT !.met = @ \union Kind("seed")] = levelWork[q]
    BY DEF LevelInv, LevelSound, LevelWorks, Kind
  <2>2. QED
    BY <1>1, <2>1
<1>3. NoLevelWork \in LevelWorks /\ NoLevelWork.op = "none"
  BY DEF NoLevelWork, LevelWorks, LevelOps
<1>4. CASE Rated # {}
  <2>1. UNCHANGED <<level, default>>
    BY <1>4 DEF SeedLevels
  <2>2. Rated' = Rated /\ \A w : LevelSound(w)' <=> LevelSound(w)
    BY <1>0, <2>1 DEF LevelSound, SeesLevels, Clears, Rated, Unused
  <2>3. LevelSound(NoLevelWork)
    BY <1>3 DEF LevelSound, SeesLevels
  <2>4. \A q \in LevelReqs : LevelSound(levelWork'[q])
    BY <1>1, <1>2, <2>3 DEF LevelInv
  <2>5. LevelTypeOK'
    BY <1>0, <1>1, <2>1 DEF LevelInv, LevelTypeOK, LevelWorks
  <2>6. LevelInv'
    BY <2>2, <2>4, <2>5 DEF LevelInv
  <2>7. QED
    BY <1>0, <2>1, <2>2, <2>6 DEF OneDefault, EveryOneRated, Offered
<1>5. CASE Rated = {}
  <2>1. /\ level' = [l \in LevelKeys |-> IF l \in BuiltIn THEN "active" ELSE "none"]
        /\ default' = {DefaultLevel}
    BY <1>5 DEF SeedLevels
  <2>2. Rated' = BuiltIn /\ Offered' = BuiltIn
    BY <2>1, LevelKeysAssumption DEF Rated, Offered
  <2>3. \A q \in LevelReqs : levelWork[q].op \in {"none", "seed"}
    BY <1>5 DEF LevelInv, LevelSound, LevelWorks
  <2>4. \A q \in LevelReqs : levelWork'[q].op \in {"none", "seed"} /\ levelWork'[q] \in LevelWorks
    BY <1>1, <1>2, <1>3, <2>3
  <2>5. \A q \in LevelReqs : LevelSound(levelWork[q])'
    BY <2>4 DEF LevelSound, SeesLevels
  <2>6. LevelTypeOK'
    BY <1>0, <1>1, <2>1, LevelKeysAssumption DEF LevelInv, LevelTypeOK, LevelWorks
  <2>7. LevelInv'
    BY <2>2, <2>5, <2>6 DEF LevelInv
  <2>8. QED
    BY <1>0, <1>5, <2>1, <2>2, <2>7, LevelKeysAssumption DEF OneDefault, EveryOneRated
<1>6. QED
  BY <1>4, <1>5

(* A level is made or changed. *)
LEMMA LevelCommitted ==
  ASSUME LevelInv, NEW r \in LevelReqs, CommitLevel(r)
  PROVE  /\ LevelInv'
         /\ OneDefault => OneDefault' \/ levelWork[r].met \intersect {"level", "delete"} # {}
         /\ EveryOneRated => EveryOneRated'
         /\ levelWork[r].op \in {"create", "update"} /\ levelWork'[r].op = "none"
<1> DEFINE w == levelWork[r]
<1>0. /\ w.op \in {"create", "update"} /\ Settles(r) /\ carries' = carries
      /\ level \in [LevelKeys -> {"none", "active", "archived"}] /\ default \subseteq LevelKeys
      /\ w \in LevelWorks /\ Rated # {} /\ w.l \in LevelKeys
      /\ default' = (default \ w.clear) \union (IF w.make THEN {w.l} ELSE {})
      /\ LevelSound(w)
  BY DEF CommitLevel, LevelInv, LevelTypeOK, LevelSound, NewDefaults
<1>1. /\ levelWork' \in [LevelReqs -> LevelWorks] /\ levelWork'[r] = NoLevelWork
      /\ \A q \in LevelReqs \ {r} :
           \/ levelWork'[q] = levelWork[q] /\ levelWork[q].op = "none"
           \/ levelWork'[q] = [levelWork[q] EXCEPT !.met = @ \union Kind(w.op)]
  BY <1>0, LevelSettled
<1>2. /\ w.op = "create" => w.l \notin Rated /\ level' = [level EXCEPT ![w.l] = "active"]
      /\ w.op = "update" => w.l \in Rated
                            /\ level' = [level EXCEPT ![w.l] = IF w.status = "keep" THEN @ ELSE w.status]
  BY <1>0 DEF CommitLevel
<1>3. Rated' = Rated \union {w.l} /\ level' \in [LevelKeys -> {"none", "active", "archived"}]
  BY <1>0, <1>2 DEF Rated, LevelWorks
<1>4. LevelTypeOK'
  BY <1>0, <1>1, <1>3 DEF LevelInv, LevelTypeOK, LevelWorks
<1>5. \A q \in LevelReqs : LevelSound(levelWork[q])'
  <2>1. NoLevelWork \in LevelWorks /\ NoLevelWork.op = "none"
    BY DEF NoLevelWork, LevelWorks, LevelOps
  <2>2. LevelSound(levelWork[r])'
    BY <1>1, <2>1 DEF LevelSound, SeesLevels
  <2>3. ASSUME NEW q \in LevelReqs \ {r} PROVE LevelSound(levelWork[q])'
    <3>1. LevelSound(levelWork[q]) /\ levelWork[q] \in LevelWorks /\ levelWork'[q] \in LevelWorks
      BY <1>1 DEF LevelInv, LevelSound
    <3>2. CASE levelWork'[q] = levelWork[q] /\ levelWork[q].op = "none"
      BY <3>1, <3>2 DEF LevelSound, SeesLevels
    <3>3. CASE levelWork'[q] = [levelWork[q] EXCEPT !.met = @ \union Kind(w.op)]
      <4>1. /\ levelWork'[q].op = levelWork[q].op /\ levelWork'[q].l = levelWork[q].l
            /\ levelWork'[q].met = levelWork[q].met \union {"level"}
        BY <1>0, <3>1, <3>3, LevelMet DEF Kind
      <4>2. QED
        BY <1>0, <1>3, <3>1, <4>1 DEF LevelSound, Unused
    <3>4. QED
      BY <1>1, <3>2, <3>3
  <2>4. QED
    BY <2>2, <2>3
<1>6. LevelInv'
  BY <1>0, <1>3, <1>4, <1>5 DEF LevelInv
<1>7. EveryOneRated => EveryOneRated'
  BY <1>0, <1>3 DEF EveryOneRated
<1>8. ASSUME OneDefault, w.met \intersect {"level", "delete"} = {} PROVE OneDefault'
  <2>1. PICK d \in Offered : default = {d}
    BY <1>0, <1>8 DEF OneDefault
  <2>2. SeesLevels(w)
    BY <1>0, <1>8 DEF LevelSound
  <2>3. CASE w.op = "create"
    <3>1. w.clear = Clears(w.l, w.make) /\ w.l # d
      BY <1>2, <2>1, <2>2, <2>3 DEF SeesLevels, Rated, Offered
    <3>2. default' = IF w.make THEN {w.l} ELSE {d}
      BY <1>0, <2>1, <3>1 DEF Clears
    <3>3. w.l \in Offered' /\ d \in Offered'
      BY <1>0, <1>2, <2>1, <2>3 DEF Offered
    <3>4. QED
      BY <3>2, <3>3 DEF OneDefault
  <2>4. CASE w.op = "update"
    <3>1. PICK make \in BOOLEAN :
            /\ w.make = (make /\ w.l \notin default)
            /\ w.clear = Clears(w.l, make)
            /\ make => w.status = "active" \/ (w.status = "keep" /\ level[w.l] = "active")
            /\ w.status = "archived" => w.l \notin default
      BY <2>2, <2>4 DEF SeesLevels
    <3>2. default' = IF make THEN {w.l} ELSE {d}
      BY <1>0, <2>1, <3>1 DEF Clears
    <3>3. make => w.l \in Offered'
      BY <1>0, <1>2, <2>4, <3>1 DEF Offered
    <3>4. d \in Offered'
      <4>1. w.status \in {"keep", "active", "archived"}
        BY <1>0 DEF LevelWorks
      <4>2. CASE d = w.l
        BY <1>0, <1>2, <2>1, <2>4, <3>1, <4>1, <4>2 DEF Offered
      <4>3. CASE d # w.l
        BY <1>0, <1>2, <2>1, <2>4, <4>3 DEF Offered
      <4>4. QED
        BY <4>2, <4>3
    <3>5. QED
      BY <3>2, <3>3, <3>4 DEF OneDefault
  <2>5. QED
    BY <1>0, <2>3, <2>4
<1>9. levelWork'[r].op = "none"
  BY <1>1 DEF NoLevelWork
<1>10. QED
  BY <1>0, <1>6, <1>7, <1>8, <1>9

(* A level without questions is deleted. *)
LEMMA LevelDeleted ==
  ASSUME LevelInv, NEW r \in LevelReqs, CommitDelete(r)
  PROVE  /\ LevelInv'
         /\ OneDefault => OneDefault' \/ levelWork[r].met \intersect {"level", "delete"} # {}
         /\ EveryOneRated => EveryOneRated' \/ "items" \in levelWork[r].met
         /\ levelWork[r].op = "delete" /\ levelWork'[r].op = "none"
<1> DEFINE w == levelWork[r]
<1>0. /\ w.op = "delete" /\ Settles(r) /\ carries' = carries
      /\ level \in [LevelKeys -> {"none", "active", "archived"}] /\ default \subseteq LevelKeys
      /\ w \in LevelWorks /\ Rated # {} /\ w.l \in LevelKeys \ BuiltIn
      /\ level' = [level EXCEPT ![w.l] = "none"] /\ default' = default \ {w.l}
      /\ LevelSound(w)
  BY DEF CommitDelete, LevelInv, LevelTypeOK, LevelSound
<1>1. /\ levelWork' \in [LevelReqs -> LevelWorks] /\ levelWork'[r] = NoLevelWork
      /\ \A q \in LevelReqs \ {r} :
           \/ levelWork'[q] = levelWork[q] /\ levelWork[q].op = "none"
           \/ levelWork'[q] = [levelWork[q] EXCEPT !.met = @ \union Kind(w.op)]
  BY <1>0, LevelSettled
<1>3. Rated' = Rated \ {w.l} /\ level' \in [LevelKeys -> {"none", "active", "archived"}]
  BY <1>0 DEF Rated
<1>4. LevelTypeOK'
  BY <1>0, <1>1, <1>3 DEF LevelInv, LevelTypeOK, LevelWorks
<1>5. Rated' # {} /\ BuiltIn \subseteq Rated'
  BY <1>0, <1>3, LevelKeysAssumption DEF LevelInv
<1>6. \A q \in LevelReqs : LevelSound(levelWork[q])'
  <2>1. NoLevelWork \in LevelWorks /\ NoLevelWork.op = "none"
    BY DEF NoLevelWork, LevelWorks, LevelOps
  <2>2. LevelSound(levelWork[r])'
    BY <1>1, <2>1 DEF LevelSound, SeesLevels
  <2>3. ASSUME NEW q \in LevelReqs \ {r} PROVE LevelSound(levelWork[q])'
    <3>1. LevelSound(levelWork[q]) /\ levelWork[q] \in LevelWorks /\ levelWork'[q] \in LevelWorks
      BY <1>1 DEF LevelInv, LevelSound
    <3>2. CASE levelWork'[q] = levelWork[q] /\ levelWork[q].op = "none"
      BY <3>1, <3>2 DEF LevelSound, SeesLevels
    <3>3. CASE levelWork'[q] = [levelWork[q] EXCEPT !.met = @ \union Kind(w.op)]
      <4>1. /\ levelWork'[q].op = levelWork[q].op /\ levelWork'[q].l = levelWork[q].l
            /\ levelWork'[q].met = levelWork[q].met \union {"delete"}
        BY <1>0, <3>1, <3>3, LevelMet DEF Kind
      <4>2. QED
        BY <1>0, <1>5, <3>1, <4>1 DEF LevelSound, Unused
    <3>4. QED
      BY <1>1, <3>2, <3>3
  <2>4. QED
    BY <2>2, <2>3
<1>7. LevelInv'
  BY <1>4, <1>5, <1>6 DEF LevelInv
<1>8. ASSUME EveryOneRated, "items" \notin w.met PROVE EveryOneRated'
  <2>1. Unused(w.l)
    BY <1>0, <1>8 DEF LevelSound
  <2>2. QED
    BY <1>0, <1>3, <1>8, <2>1 DEF EveryOneRated, Unused
<1>9. ASSUME OneDefault, w.met \intersect {"level", "delete"} = {} PROVE OneDefault'
  <2>1. PICK d \in Offered : default = {d}
    BY <1>0, <1>9 DEF OneDefault
  <2>2. w.l \notin default
    BY <1>0, <1>9 DEF LevelSound, SeesLevels
  <2>3. d \in Offered' /\ default' = {d}
    BY <1>0, <2>1, <2>2 DEF Offered
  <2>4. QED
    BY <2>3 DEF OneDefault
<1>10. levelWork'[r].op = "none"
  BY <1>1 DEF NoLevelWork
<1>11. QED
  BY <1>0, <1>7, <1>8, <1>9, <1>10

(* Questions get a level. *)
LEMMA LevelTaken ==
  ASSUME LevelInv, NEW r \in LevelReqs, CommitItems(r)
  PROVE  /\ LevelInv'
         /\ OneDefault => OneDefault'
         /\ EveryOneRated => EveryOneRated' \/ "delete" \in levelWork[r].met
         /\ levelWork[r].op \in {"items", "rerate"} /\ levelWork'[r].op = "none"
<1> DEFINE w == levelWork[r]
<1>0. /\ w.op \in {"items", "rerate"} /\ Settles(r) /\ UNCHANGED <<level, default>>
      /\ carries \in [LevelItems -> LevelKeys \union {"none"}]
      /\ w \in LevelWorks /\ w.l \in LevelKeys
      /\ carries' = [i \in LevelItems |-> IF i \in w.items THEN w.l ELSE carries[i]]
      /\ LevelSound(w)
  BY DEF CommitItems, LevelInv, LevelTypeOK, LevelSound
<1>1. /\ levelWork' \in [LevelReqs -> LevelWorks] /\ levelWork'[r] = NoLevelWork
      /\ \A q \in LevelReqs \ {r} :
           \/ levelWork'[q] = levelWork[q] /\ levelWork[q].op = "none"
           \/ levelWork'[q] = [levelWork[q] EXCEPT !.met = @ \union Kind(w.op)]
  BY <1>0, LevelSettled
<1>2. Rated' = Rated /\ Offered' = Offered /\ \A v : SeesLevels(v)' <=> SeesLevels(v)
  BY <1>0 DEF Rated, Offered, SeesLevels, Clears
<1>3. LevelTypeOK'
  BY <1>0, <1>1 DEF LevelInv, LevelTypeOK, LevelWorks
<1>4. \A q \in LevelReqs : LevelSound(levelWork[q])'
  <2>1. NoLevelWork \in LevelWorks /\ NoLevelWork.op = "none"
    BY DEF NoLevelWork, LevelWorks, LevelOps
  <2>2. LevelSound(levelWork[r])'
    BY <1>1, <2>1 DEF LevelSound, SeesLevels
  <2>3. ASSUME NEW q \in LevelReqs \ {r} PROVE LevelSound(levelWork[q])'
    <3>1. LevelSound(levelWork[q]) /\ levelWork[q] \in LevelWorks /\ levelWork'[q] \in LevelWorks
      BY <1>1 DEF LevelInv, LevelSound
    <3>2. CASE levelWork'[q] = levelWork[q] /\ levelWork[q].op = "none"
      BY <3>1, <3>2 DEF LevelSound, SeesLevels
    <3>3. CASE levelWork'[q] = [levelWork[q] EXCEPT !.met = @ \union Kind(w.op)]
      <4>1. /\ levelWork'[q].op = levelWork[q].op /\ levelWork'[q].l = levelWork[q].l
            /\ levelWork'[q].status = levelWork[q].status
            /\ levelWork'[q].make = levelWork[q].make
            /\ levelWork'[q].clear = levelWork[q].clear
            /\ levelWork'[q].met = levelWork[q].met \union {"items"}
        BY <1>0, <3>1, <3>3, LevelMet DEF Kind
      <4>2. SeesLevels(levelWork[q])' <=> SeesLevels(levelWork[q])
        BY <1>0, <4>1 DEF SeesLevels, Clears
      <4>3. QED
        BY <1>2, <3>1, <4>1, <4>2 DEF LevelSound, Unused
    <3>4. QED
      BY <1>1, <3>2, <3>3
  <2>4. QED
    BY <2>2, <2>3
<1>5. LevelInv'
  BY <1>2, <1>3, <1>4 DEF LevelInv
<1>6. ASSUME EveryOneRated, "delete" \notin w.met PROVE EveryOneRated'
  <2>1. w.l \in Rated
    BY <1>0, <1>6 DEF LevelSound
  <2>2. QED
    BY <1>0, <1>2, <1>6, <2>1 DEF EveryOneRated
<1>7. levelWork'[r].op = "none"
  BY <1>1 DEF NoLevelWork
<1>8. QED
  BY <1>0, <1>2, <1>5, <1>6, <1>7 DEF OneDefault

LEMMA LevelQuiet ==
  ASSUME LevelInv,
         \/ \E r \in LevelReqs : DropLevel(r)
         \/ \E i \in LevelItems : ItemGoes(i)
         \/ UNCHANGED levelVars
  PROVE  LevelInv' /\ (OneDefault => OneDefault') /\ (EveryOneRated => EveryOneRated')
<1>1. UNCHANGED <<level, default>>
  BY DEF DropLevel, ItemGoes, levelVars
<1>2. /\ carries' \in [LevelItems -> LevelKeys \union {"none"}]
      /\ \A i \in LevelItems : carries'[i] \in {carries[i], "none"}
  BY DEF DropLevel, ItemGoes, levelVars, LevelInv, LevelTypeOK
<1>3. NoLevelWork \in LevelWorks /\ NoLevelWork.op = "none"
  BY DEF NoLevelWork, LevelWorks, LevelOps
<1>4. /\ levelWork' \in [LevelReqs -> LevelWorks]
      /\ \A r \in LevelReqs : levelWork'[r] \in {levelWork[r], NoLevelWork}
  BY <1>3 DEF DropLevel, ItemGoes, levelVars, LevelInv, LevelTypeOK, LevelWorks
<1>5. Rated' = Rated /\ Offered' = Offered
  BY <1>1 DEF Rated, Offered
<1>6. \A r \in LevelReqs : LevelSound(levelWork[r])'
  <2>1. ASSUME NEW r \in LevelReqs, levelWork'[r] = NoLevelWork PROVE LevelSound(levelWork[r])'
    BY <1>3, <2>1 DEF LevelSound, SeesLevels
  <2>2. ASSUME NEW r \in LevelReqs, levelWork'[r] = levelWork[r] PROVE LevelSound(levelWork[r])'
    <3>1. LevelSound(levelWork[r]) /\ (SeesLevels(levelWork[r])' <=> SeesLevels(levelWork[r]))
      BY <1>1, <2>2 DEF LevelInv, SeesLevels, Clears
    <3>2. Unused(levelWork[r].l) /\ levelWork[r].l \in LevelKeys /\ "none" # levelWork[r].l
          => Unused(levelWork[r].l)'
      BY <1>2, <2>2 DEF Unused
    <3>3. QED
      BY <1>5, <2>2, <3>1, <3>2, LevelKeysAssumption DEF LevelSound
  <2>3. QED
    BY <1>4, <2>1, <2>2
<1>7. LevelTypeOK'
  BY <1>1, <1>2, <1>4 DEF LevelInv, LevelTypeOK, LevelWorks
<1>8. QED
  BY <1>1, <1>2, <1>5, <1>6, <1>7 DEF LevelInv, OneDefault, EveryOneRated

LEMMA LevelStays ==
  ASSUME LevelInv, [LevelNext]_levelVars
  PROVE  /\ LevelInv'
         /\ OneDefault => OneDefault' \/ RacedLevel({"create", "update", "delete"}, {"level", "delete"})
         /\ EveryOneRated => \/ EveryOneRated'
                             \/ RacedLevel({"items", "rerate"}, {"delete"})
                             \/ RacedLevel({"delete"}, {"items"})
<1>1. ASSUME NEW r \in LevelReqs, NEW w, Decides(r, w), LevelSound(w)
      PROVE  LevelInv' /\ (OneDefault => OneDefault') /\ (EveryOneRated => EveryOneRated')
  <2>1. LevelInv'
    BY <1>1, LevelDecided
  <2>2. UNCHANGED <<level, default, carries>>
    BY <1>1 DEF Decides
  <2>3. QED
    BY <2>1, <2>2 DEF OneDefault, EveryOneRated, Rated, Offered
<1>2. ASSUME NEW r \in LevelReqs, CommitLevel(r) \/ CommitDelete(r) \/ CommitItems(r)
      PROVE  /\ LevelInv'
             /\ OneDefault => OneDefault' \/ RacedLevel({"create", "update", "delete"}, {"level", "delete"})
             /\ EveryOneRated => \/ EveryOneRated'
                                 \/ RacedLevel({"items", "rerate"}, {"delete"})
                                 \/ RacedLevel({"delete"}, {"items"})
  BY <1>2, LevelCommitted, LevelDeleted, LevelTaken DEF RacedLevel
<1>3. ASSUME NEW r \in LevelReqs, LevelStep(r)
      PROVE  \/ \E w : Decides(r, w) /\ LevelSound(w)
             \/ SeedLevels(r) \/ CommitLevel(r) \/ CommitDelete(r) \/ CommitItems(r) \/ DropLevel(r)
  BY <1>3, LevelAsked
<1>4. QED
  BY <1>1, <1>2, <1>3, LevelSeeded, LevelQuiet DEF LevelNext

(* The invariant behind LevelsKept: the levels, defaults and counts that a *)
(* request has read are still so, or it has met what changed them          *)
(* (difficulty_service.py).                                                *)
THEOREM LevelInvariance == LevelSpec => []LevelInv
BY LevelsBegin, LevelStays, PTL DEF LevelSpec

(* Every variable of the levels has its type.                              *)
THEOREM LevelsTyped == LevelSpec => []LevelTypeOK
<1>1. LevelInv => LevelTypeOK
  BY DEF LevelInv
<1>2. QED
  BY <1>1, LevelInvariance, PTL

(* However many requests there are: one active level is the default, and   *)
(* every question carries a level that exists, unless requests overlapped. *)
THEOREM LevelsStayKept == LevelSpec => LevelsKept
<1>1. LevelInv /\ [LevelNext]_levelVars =>
        [ /\ OneDefault => OneDefault' \/ RacedLevel({"create", "update", "delete"}, {"level", "delete"})
          /\ EveryOneRated => \/ EveryOneRated'
                              \/ RacedLevel({"items", "rerate"}, {"delete"})
                              \/ RacedLevel({"delete"}, {"items"}) ]_levelVars
  BY LevelStays
<1>2. QED
  BY <1>1, LevelInvariance, PTL DEF LevelSpec, LevelsKept

---------------------------------------------------------------------------
(***************************************************************************)
(* Periods. A new id is named by one request at most, and what a request   *)
(* has read of the current period holds until someone sets another.        *)
(***************************************************************************)
PeriodWorks ==
  [op : PeriodOps \union {"none"}, p : PeriodIds \union {"none"},
   in : PeriodIds \union {"top"}, sets : BOOLEAN, clears : BOOLEAN, lifts : BOOLEAN,
   ids : SUBSET PeriodIds, on : Datables \union {"none"}, met : SUBSET PeriodOps]

PeriodSound(w) ==
  /\ w \in PeriodWorks
  /\ w.op = "create" =>
       /\ w.p \in PeriodIds \ Known
       /\ w.in \in Known => within[w.in] = "top"
       /\ w.in # w.p
  /\ w.op \in {"archive", "restore", "delete"} => w.p \in PeriodIds
  /\ w.op = "date" => w.on \in Datables
  /\ w.op = "archive" =>
       /\ ~ w.lifts
       /\ "current" \notin w.met /\ ClearsCurrent(w.p) => w.clears
  /\ w.op = "current" /\ "archive" \notin w.met /\ w.p \in Known => Usable(w.p)

(* What r is about to create is named by no other request.                 *)
NamedOnce == \A r, q \in PeriodReqs :
  r # q /\ periodWork[r].op = "create" =>
    periodWork[r].p \notin {periodWork[q].p, periodWork[q].in} \union periodWork[q].ids

(* Whatever has a period, is within one or is current has one that is there. *)
RefersToKnown ==
  /\ current \in Known \union {"none"}
  /\ \A d \in Datables : dated[d] \in Known \union {"none"}

PeriodInv ==
  /\ PeriodTypeOK
  /\ TwoLevels
  /\ RefersToKnown
  /\ NamedOnce
  /\ \A r \in PeriodReqs : PeriodSound(periodWork[r])

LEMMA NoPeriodWorkIsNone == NoPeriodWork \in PeriodWorks /\ NoPeriodWork.op = "none"
BY DEF NoPeriodWork, PeriodWorks, PeriodOps

LEMMA PeriodsBegin == PeriodInit => PeriodInv
<1> SUFFICES ASSUME PeriodInit PROVE PeriodInv
  OBVIOUS
<1>1. PeriodSound(NoPeriodWork)
  BY NoPeriodWorkIsNone DEF PeriodSound
<1>2. Known = {} /\ PeriodTypeOK
  BY NoPeriodWorkIsNone DEF PeriodInit, PeriodTypeOK, Known, PeriodWorks
<1>3. TwoLevels /\ RefersToKnown
  BY <1>2 DEF PeriodInit, TwoLevels, RefersToKnown
<1>4. NamedOnce
  BY NoPeriodWorkIsNone DEF PeriodInit, NamedOnce
<1>5. QED
  BY <1>1, <1>2, <1>3, <1>4 DEF PeriodInv, PeriodInit

(* What a request plans: it is sound, and names no id that another one is  *)
(* about to create; the id it is about to create itself no one has named.  *)
PlansWell(r, w) ==
  /\ Plans(r, w)
  /\ PeriodSound(w)
  /\ \A x \in {w.p, w.in} \union w.ids : x \in Known \union {"none", "top"} \/ w.op = "create"
  /\ w.op = "create" => FreshPeriod(w.p) /\ w.in \in Known \union {"top"} /\ w.ids = {}

LEMMA PeriodPlanned ==
  ASSUME PeriodInv, NEW r \in PeriodReqs, NEW w, PlansWell(r, w)
  PROVE  PeriodInv'
<1>1. /\ periodWork' = [periodWork EXCEPT ![r] = w]
      /\ UNCHANGED <<period, within, current, dated>>
  BY DEF PlansWell, Plans
<1>2. /\ w \in PeriodWorks /\ PeriodSound(w)
      /\ periodWork \in [PeriodReqs -> PeriodWorks]
  BY DEF PlansWell, PeriodSound, PeriodInv, PeriodTypeOK, PeriodWorks
<1>3. PeriodTypeOK'
  BY <1>1, <1>2 DEF PeriodInv, PeriodTypeOK, PeriodWorks
<1>4. Known' = Known /\ \A v : PeriodSound(v)' <=> PeriodSound(v)
  BY <1>1 DEF PeriodSound, Usable, ClearsCurrent, Known
<1>5. \A q \in PeriodReqs : PeriodSound(periodWork[q])'
  BY <1>1, <1>2, <1>4 DEF PeriodInv
<1>6. TwoLevels' /\ RefersToKnown'
  BY <1>1, <1>4 DEF PeriodInv, TwoLevels, RefersToKnown
<1>7. NamedOnce'
  <2> SUFFICES ASSUME NEW a \in PeriodReqs, NEW q \in PeriodReqs, a # q,
                      periodWork'[a].op = "create"
               PROVE  periodWork'[a].p \notin {periodWork'[q].p, periodWork'[q].in}
                                              \union periodWork'[q].ids
    BY DEF NamedOnce
  <2>1. CASE a # r /\ q # r
    BY <1>1, <1>2, <2>1 DEF PeriodInv, NamedOnce
  <2>2. CASE a = r
    <3>1. periodWork'[a] = w /\ periodWork'[q] = periodWork[q]
      BY <1>1, <1>2, <2>2
    <3>2. QED
      BY <3>1 DEF PlansWell, FreshPeriod
  <2>3. CASE q = r
    <3>1. periodWork'[q] = w /\ periodWork'[a] = periodWork[a]
      BY <1>1, <1>2, <2>3
    <3>2. periodWork[a].p \in PeriodIds \ Known /\ periodWork[a].p \notin {"none", "top"}
      BY <3>1, PeriodIdsAssumption DEF PeriodInv, PeriodSound
    <3>3. CASE w.op = "create"
      <4>1. w.p # periodWork[a].p
        BY <3>3 DEF PlansWell, FreshPeriod
      <4>2. w.in \in Known \union {"top"} /\ w.ids = {}
        BY <3>3 DEF PlansWell
      <4>3. QED
        BY <3>1, <3>2, <4>1, <4>2
    <3>4. CASE w.op # "create"
      BY <3>1, <3>2, <3>4 DEF PlansWell
    <3>5. QED
      BY <3>3, <3>4
  <2>4. QED
    BY <2>1, <2>2, <2>3
<1>8. QED
  BY <1>3, <1>5, <1>6, <1>7 DEF PeriodInv

LEMMA PeriodAsked ==
  ASSUME PeriodInv, NEW r \in PeriodReqs, PeriodStep(r)
  PROVE  \/ \E w : PlansWell(r, w)
         \/ CommitPeriod(r) \/ CommitPeriodStatus(r) \/ CommitDeletePeriod(r)
         \/ CommitCurrent(r) \/ CommitDate(r) \/ DropPeriod(r)
<1>0. /\ period \in [PeriodIds -> {"none", "active", "archived"}]
      /\ within \in [PeriodIds -> PeriodIds \union {"top"}]
      /\ Known \subseteq PeriodIds
  BY DEF PeriodInv, PeriodTypeOK, Known
<1> DEFINE Well == \E w : PlansWell(r, w)
<1> USE PeriodIdsAssumption DEF NoPeriodWork, PeriodWorks, PeriodOps, PeriodSound
<1>1. ASSUME NEW p \in PeriodIds, NEW in \in PeriodIds \union {"top"}, AskCreatePeriod(r, p, in)
      PROVE  Well
  <2> DEFINE w == [NoPeriodWork EXCEPT !.op = "create", !.p = p, !.in = in]
  <2>1. /\ Plans(r, w) /\ FreshPeriod(p) /\ p \notin Known /\ in \in Known \union {"top"}
        /\ in # "top" => within[in] = "top"
    BY <1>1 DEF AskCreatePeriod, FreshPeriod, Known
  <2>2. PeriodSound(w)
    BY <1>0, <2>1
  <2>3. w.op = "create" /\ w.p = p /\ w.in = in /\ w.ids = {}
    OBVIOUS
  <2> HIDE DEF w, PeriodSound
  <2>4. PlansWell(r, w)
    BY <2>1, <2>2, <2>3 DEF PlansWell
  <2>5. QED
    BY <2>4
<1>2. ASSUME NEW p \in PeriodIds, AskArchivePeriod(r, p)
      PROVE  Well
  <2> DEFINE w == [NoPeriodWork EXCEPT !.op = "archive", !.p = p, !.sets = period[p] # "archived",
                                       !.clears = ClearsCurrent(p)]
  <2>1. Plans(r, w) /\ p \in Known
    BY <1>2 DEF AskArchivePeriod
  <2>2. PeriodSound(w)
    BY <1>0, <2>1 DEF ClearsCurrent
  <2>3. w.op = "archive" /\ w.p = p /\ w.in = "top" /\ w.ids = {}
    OBVIOUS
  <2> HIDE DEF w, PeriodSound
  <2>4. PlansWell(r, w)
    BY <2>1, <2>2, <2>3 DEF PlansWell
  <2>5. QED
    BY <2>4
<1>3. ASSUME NEW p \in PeriodIds, AskRestore(r, p)
      PROVE  Well
  <2> DEFINE w == [NoPeriodWork EXCEPT !.op = "restore", !.p = p, !.sets = period[p] # "active",
                     !.lifts = within[p] # "top" /\ period[within[p]] = "archived"]
  <2>1. Plans(r, w) /\ p \in Known
    BY <1>3 DEF AskRestore
  <2>2. PeriodSound(w)
    BY <1>0, <2>1
  <2>3. w.op = "restore" /\ w.p = p /\ w.in = "top" /\ w.ids = {}
    OBVIOUS
  <2> HIDE DEF w, PeriodSound
  <2>4. PlansWell(r, w)
    BY <2>1, <2>2, <2>3 DEF PlansWell
  <2>5. QED
    BY <2>4
<1>4. ASSUME NEW p \in PeriodIds, AskDeletePeriod(r, p)
      PROVE  Well
  <2> DEFINE w == [NoPeriodWork EXCEPT !.op = "delete", !.p = p, !.ids = Family(p),
                                       !.clears = ClearsCurrent(p)]
  <2>1. Plans(r, w) /\ p \in Known
    BY <1>4 DEF AskDeletePeriod
  <2>2. Family(p) \subseteq Known
    BY <2>1 DEF Family, Terms
  <2>3. PeriodSound(w)
    BY <1>0, <2>1, <2>2 DEF ClearsCurrent
  <2>4. w.op = "delete" /\ w.p = p /\ w.in = "top" /\ w.ids = Family(p)
    OBVIOUS
  <2> HIDE DEF w, PeriodSound
  <2>5. PlansWell(r, w)
    BY <2>1, <2>2, <2>3, <2>4 DEF PlansWell
  <2>6. QED
    BY <2>5
<1>5. ASSUME NEW p \in PeriodIds \union {"none"}, AskCurrent(r, p)
      PROVE  Well
  <2> DEFINE w == [NoPeriodWork EXCEPT !.op = "current", !.p = p, !.sets = p # current]
  <2>1. Plans(r, w) /\ (p = "none" \/ (p \in Known /\ Usable(p)))
    BY <1>5 DEF AskCurrent
  <2>2. PeriodSound(w)
    BY <1>0, <2>1
  <2>3. w.op = "current" /\ w.p = p /\ w.in = "top" /\ w.ids = {}
    OBVIOUS
  <2> HIDE DEF w, PeriodSound
  <2>4. PlansWell(r, w)
    BY <2>1, <2>2, <2>3 DEF PlansWell
  <2>5. QED
    BY <2>4
<1>6. ASSUME NEW d \in Datables, NEW p \in PeriodIds \union {"none"}, AskDate(r, d, p)
      PROVE  Well
  <2> DEFINE w == [NoPeriodWork EXCEPT !.op = "date", !.p = p, !.on = d]
  <2>1. Plans(r, w) /\ (p = "none" \/ p \in Known)
    BY <1>6 DEF AskDate
  <2>2. PeriodSound(w)
    BY <1>0, <2>1
  <2>3. w.op = "date" /\ w.p = p /\ w.in = "top" /\ w.ids = {}
    OBVIOUS
  <2> HIDE DEF w, PeriodSound
  <2>4. PlansWell(r, w)
    BY <2>1, <2>2, <2>3 DEF PlansWell
  <2>5. QED
    BY <2>4
<1> HIDE DEF Well
<1>7. QED
  BY <1>1, <1>2, <1>3, <1>4, <1>5, <1>6 DEF PeriodStep, Well

(* What the others have when r has committed: they have met it.            *)
HaveMet(r) ==
  /\ periodWork' \in [PeriodReqs -> PeriodWorks]
  /\ periodWork'[r] = NoPeriodWork
  /\ NamedOnce'
  /\ \A q \in PeriodReqs \ {r} : LET w == periodWork[q] IN
       /\ periodWork'[q].op = w.op /\ periodWork'[q].p = w.p /\ periodWork'[q].in = w.in
       /\ periodWork'[q].ids = w.ids /\ periodWork'[q].clears = w.clears
       /\ periodWork'[q].lifts = w.lifts /\ periodWork'[q].on = w.on
       /\ w.op # "none" => periodWork'[q].met = w.met \union {periodWork[r].op}

LEMMA PeriodPerformed ==
  ASSUME PeriodInv, NEW r \in PeriodReqs, Performs(r), periodWork[r].op # "none"
  PROVE  HaveMet(r)
<1>1. /\ \A q \in PeriodReqs : periodWork[q] \in PeriodWorks
      /\ periodWork[r].op \in PeriodOps
      /\ NoPeriodWork \in PeriodWorks /\ NoPeriodWork.op = "none" /\ NoPeriodWork.p = "none"
      /\ NoPeriodWork.in = "top" /\ NoPeriodWork.ids = {}
  BY DEF PeriodInv, PeriodSound, PeriodWorks, PeriodOps, NoPeriodWork
<1>2. \A w \in PeriodWorks, op \in PeriodOps :
        LET v == [w EXCEPT !.met = @ \union {op}] IN
        /\ v \in PeriodWorks
        /\ v.op = w.op /\ v.p = w.p /\ v.in = w.in /\ v.ids = w.ids /\ v.clears = w.clears
        /\ v.lifts = w.lifts /\ v.on = w.on /\ v.met = w.met \union {op}
  BY DEF PeriodWorks
<1>3. /\ periodWork' \in [PeriodReqs -> PeriodWorks] /\ periodWork'[r] = NoPeriodWork
      /\ \A q \in PeriodReqs \ {r} :
           periodWork'[q] = IF periodWork[q].op = "none" THEN periodWork[q]
                            ELSE [periodWork[q] EXCEPT !.met = @ \union {periodWork[r].op}]
  BY <1>1, <1>2 DEF Performs
<1>4. \A q \in PeriodReqs \ {r} : LET w == periodWork[q] IN
       /\ periodWork'[q].op = w.op /\ periodWork'[q].p = w.p /\ periodWork'[q].in = w.in
       /\ periodWork'[q].ids = w.ids /\ periodWork'[q].clears = w.clears
       /\ periodWork'[q].lifts = w.lifts /\ periodWork'[q].on = w.on
       /\ w.op # "none" => periodWork'[q].met = w.met \union {periodWork[r].op}
  <2> TAKE q \in PeriodReqs \ {r}
  <2>1. periodWork[q] \in PeriodWorks
    BY <1>1
  <2>2. CASE periodWork[q].op = "none"
    BY <1>3, <2>2
  <2>3. CASE periodWork[q].op # "none"
    <3>1. periodWork'[q] = [periodWork[q] EXCEPT !.met = @ \union {periodWork[r].op}]
      BY <1>3, <2>3
    <3>2. QED
      BY <1>1, <1>2, <2>1, <3>1
  <2>4. QED
    BY <2>2, <2>3
<1>5. NamedOnce'
  <2> SUFFICES ASSUME NEW a \in PeriodReqs, NEW q \in PeriodReqs, a # q,
                      periodWork'[a].op = "create"
               PROVE  periodWork'[a].p \notin {periodWork'[q].p, periodWork'[q].in}
                                              \union periodWork'[q].ids
    BY DEF NamedOnce
  <2>1. a # r /\ periodWork[a].op = "create" /\ periodWork'[a].p = periodWork[a].p
    BY <1>1, <1>3, <1>4
  <2>2. periodWork[a].p \in PeriodIds
    BY <2>1 DEF PeriodInv, PeriodSound
  <2>3. CASE q = r
    BY <1>1, <1>3, <2>1, <2>2, <2>3, PeriodIdsAssumption
  <2>4. CASE q # r
    BY <1>4, <2>1, <2>4 DEF PeriodInv, NamedOnce
  <2>5. QED
    BY <2>3, <2>4
<1>6. QED
  BY <1>3, <1>4, <1>5 DEF HaveMet

(* What a step of kind op has to keep of what another request knows.       *)
StillKnows(w, op) ==
  /\ w.op = "create" => w.p \notin Known' /\ (w.in \in Known' => within'[w.in] = "top")
  /\ w.op = "archive" /\ "current" \notin w.met /\ op # "current"
       => \A p \in PeriodIds : p = w.p /\ ClearsCurrent(p)' => w.clears
  /\ w.op = "current" /\ "archive" \notin w.met /\ op # "archive"
       => \A p \in PeriodIds : p = w.p /\ p \in Known' => Usable(p)'

LEMMA PeriodOthers ==
  ASSUME PeriodInv, NEW r \in PeriodReqs, HaveMet(r),
         PeriodTypeOK', TwoLevels', RefersToKnown',
         \A q \in PeriodReqs \ {r} : StillKnows(periodWork[q], periodWork[r].op)
  PROVE  PeriodInv'
<1>1. PeriodSound(periodWork[r])'
  BY NoPeriodWorkIsNone DEF HaveMet, PeriodSound
<1>2. ASSUME NEW q \in PeriodReqs \ {r} PROVE PeriodSound(periodWork[q])'
  <2> DEFINE w == periodWork[q]
             v == periodWork'[q]
  <2>1. PeriodSound(w) /\ v \in PeriodWorks
    BY DEF PeriodInv, HaveMet
  <2>2. /\ v.op = w.op /\ v.p = w.p /\ v.in = w.in /\ v.clears = w.clears
        /\ v.lifts = w.lifts /\ v.on = w.on
        /\ w.op # "none" => v.met = w.met \union {periodWork[r].op}
    BY DEF HaveMet
  <2>3. /\ w.op = "create" => w.p \notin Known' /\ (w.in \in Known' => within'[w.in] = "top")
        /\ w.op = "archive" /\ "current" \notin w.met /\ periodWork[r].op # "current"
             => \A p \in PeriodIds : p = w.p /\ ClearsCurrent(p)' => w.clears
        /\ w.op = "current" /\ "archive" \notin w.met /\ periodWork[r].op # "archive"
             => \A p \in PeriodIds : p = w.p /\ p \in Known' => Usable(p)'
    BY DEF StillKnows
  <2>4. v.op = "archive" /\ "current" \notin v.met
        => \A p \in PeriodIds : p = v.p /\ ClearsCurrent(p)' => v.clears
    BY <2>2, <2>3
  <2>5. v.op = "current" /\ "archive" \notin v.met
        => \A p \in PeriodIds : p = v.p /\ p \in Known' => Usable(p)'
    BY <2>2, <2>3
  <2>6. /\ v.op = "create" => v.p \in PeriodIds \ Known' /\ (v.in \in Known' => within'[v.in] = "top")
                              /\ v.in # v.p
        /\ v.op \in {"archive", "restore", "delete"} => v.p \in PeriodIds
        /\ v.op = "date" => v.on \in Datables
        /\ v.op = "archive" => ~ v.lifts
    BY <2>1, <2>2, <2>3 DEF PeriodSound
  <2>7. \A p : p \in Known' => p \in PeriodIds
    BY DEF Known
  <2>8. QED
    BY <2>1, <2>4, <2>5, <2>6, <2>7 DEF PeriodSound
<1>3. QED
  BY <1>1, <1>2 DEF PeriodInv, HaveMet

(* A new period: whoever has it in mind does not exist.                    *)
LEMMA PeriodCreated ==
  ASSUME PeriodInv, NEW r \in PeriodReqs, CommitPeriod(r)
  PROVE  PeriodInv' /\ (CurrentUsable => CurrentUsable')
<1> DEFINE w == periodWork[r]
<1>0. /\ w \in PeriodWorks /\ w.op = "create" /\ Performs(r) /\ UNCHANGED <<current, dated>>
      /\ w.p \in PeriodIds \ Known /\ w.in # w.p /\ w.in \in Known \union {"top"}
      /\ w.in \in Known => within[w.in] = "top"
      /\ period' = [period EXCEPT ![w.p] = "active"] /\ within' = [within EXCEPT ![w.p] = w.in]
  BY DEF CommitPeriod, PeriodInv, PeriodSound, PeriodWorks
<1>1. HaveMet(r)
  BY <1>0, PeriodPerformed
<1>2. /\ period \in [PeriodIds -> {"none", "active", "archived"}]
      /\ within \in [PeriodIds -> PeriodIds \union {"top"}]
      /\ current \in Known \union {"none"}
      /\ TwoLevels /\ "none" \notin PeriodIds /\ "top" \notin PeriodIds
  BY PeriodIdsAssumption DEF PeriodInv, PeriodTypeOK, RefersToKnown
<1>3. /\ Known' = Known \union {w.p}
      /\ \A p \in Known : p # w.p /\ p \in PeriodIds /\ period'[p] = period[p] /\ within'[p] = within[p]
      /\ within'[w.p] = w.in
  BY <1>0, <1>2 DEF Known
<1>4. \A p \in Known : (Usable(p)' <=> Usable(p))
  BY <1>2, <1>3 DEF Usable, TwoLevels
<1>5. PeriodTypeOK'
  BY <1>0, <1>1, <1>2 DEF PeriodInv, PeriodTypeOK, HaveMet, PeriodWorks, Known
<1>6. TwoLevels' /\ RefersToKnown'
  BY <1>0, <1>2, <1>3 DEF PeriodInv, TwoLevels, RefersToKnown
<1>7. ASSUME NEW q \in PeriodReqs \ {r}
      PROVE  StillKnows(periodWork[q], w.op)
  <2>1. PeriodSound(periodWork[q]) /\ w.p \notin {periodWork[q].p, periodWork[q].in}
    BY <1>0 DEF PeriodInv, NamedOnce
  <2>2. \A p \in PeriodIds : ClearsCurrent(p)' <=> ClearsCurrent(p)
    BY <1>0, <1>2, <1>3 DEF ClearsCurrent
  <2>3. QED
    BY <1>3, <1>4, <2>1, <2>2 DEF PeriodSound, StillKnows
<1>8. PeriodInv'
  BY <1>1, <1>5, <1>6, <1>7, PeriodOthers
<1>9. QED
  BY <1>0, <1>2, <1>4, <1>8 DEF CurrentUsable

(* A period is archived, or restored with its session. *)
LEMMA PeriodStatusSet ==
  ASSUME PeriodInv, NEW r \in PeriodReqs, CommitPeriodStatus(r)
  PROVE  /\ PeriodInv'
         /\ CurrentUsable => CurrentUsable' \/ (periodWork[r].op = "archive" /\ "current" \in periodWork[r].met)
<1> DEFINE w == periodWork[r]
           as == IF w.op = "archive" THEN "archived" ELSE "active"
<1>0. /\ w \in PeriodWorks /\ PeriodSound(w) /\ w.op \in {"archive", "restore"} /\ Performs(r)
      /\ UNCHANGED <<within, dated>>
      /\ w.p \in Known
      /\ period' = [p \in PeriodIds |->
           IF p = w.p /\ w.sets THEN as
           ELSE IF w.lifts /\ p = within[w.p] THEN "active" ELSE period[p]]
      /\ current' = IF w.clears THEN "none" ELSE current
  BY DEF CommitPeriodStatus, PeriodInv, PeriodSound, Cleared
<1>1. HaveMet(r)
  BY <1>0, PeriodPerformed
<1>2. /\ period \in [PeriodIds -> {"none", "active", "archived"}]
      /\ within \in [PeriodIds -> PeriodIds \union {"top"}]
      /\ current \in Known \union {"none"}
      /\ TwoLevels /\ "none" \notin PeriodIds /\ "top" \notin PeriodIds
      /\ Known \subseteq PeriodIds
  BY PeriodIdsAssumption DEF PeriodInv, PeriodTypeOK, RefersToKnown, Known
<1>3. period' \in [PeriodIds -> {"none", "active", "archived"}] /\ Known' = Known
  <2>1. as \in {"active", "archived"}
    OBVIOUS
  <2>2. within[w.p] # "top" => within[w.p] \in Known
    BY <1>0, <1>2 DEF TwoLevels
  <2> HIDE DEF w, as
  <2>3. QED
    BY <1>0, <1>2, <2>1, <2>2 DEF Known
<1>4. PeriodTypeOK'
  BY <1>0, <1>1, <1>2, <1>3 DEF PeriodInv, PeriodTypeOK, HaveMet, PeriodWorks, Known
<1>5. TwoLevels' /\ RefersToKnown'
  BY <1>0, <1>3 DEF PeriodInv, TwoLevels, RefersToKnown
<1>6. CASE w.op = "archive"
  <2>1. \A p \in PeriodIds : ClearsCurrent(p)' => ClearsCurrent(p)
    BY <1>0, <1>2 DEF ClearsCurrent
  <2>2. ASSUME NEW q \in PeriodReqs \ {r}
        PROVE  StillKnows(periodWork[q], w.op)
    <3>1. PeriodSound(periodWork[q])
      BY DEF PeriodInv
    <3>2. QED
      BY <1>0, <1>3, <1>6, <2>1, <3>1 DEF PeriodSound, StillKnows
  <2>3. PeriodInv'
    BY <1>1, <1>4, <1>5, <2>2, PeriodOthers
  <2>4. ASSUME CurrentUsable, "current" \notin w.met PROVE CurrentUsable'
    <3>1. ~ w.lifts /\ (ClearsCurrent(w.p) => w.clears)
      BY <1>0, <1>6, <2>4 DEF PeriodSound
    <3>2. CASE w.clears
      BY <1>0, <3>2 DEF CurrentUsable
    <3>3. CASE ~ w.clears /\ current # "none"
      <4>1. /\ current' = current /\ current \in Known /\ current # w.p /\ within[current] # w.p
            /\ period[current] = "active"
            /\ within[current] # "top" => within[current] \in Known /\ period[within[current]] = "active"
        BY <1>0, <1>2, <2>4, <3>1, <3>3 DEF ClearsCurrent, CurrentUsable, Usable, TwoLevels
      <4>2. \A p \in PeriodIds \ {w.p} : period'[p] = period[p]
        BY <1>0, <3>1
      <4>3. QED
        BY <1>0, <1>2, <4>1, <4>2 DEF CurrentUsable, Usable
    <3>4. QED
      BY <1>0, <3>2, <3>3 DEF CurrentUsable
  <2>5. QED
    BY <1>6, <2>3, <2>4
<1>7. CASE w.op = "restore"
  <2>1. \A p \in PeriodIds : period[p] = "active" => period'[p] = "active"
    BY <1>0, <1>2, <1>7
  <2>2. \A p \in Known : Usable(p) => Usable(p)'
    BY <1>0, <1>2, <2>1 DEF Usable, TwoLevels
  <2>3. \A p \in PeriodIds : ClearsCurrent(p)' => ClearsCurrent(p)
    BY <1>0, <1>2 DEF ClearsCurrent
  <2>4. ASSUME NEW q \in PeriodReqs \ {r}
        PROVE  StillKnows(periodWork[q], w.op)
    <3>1. PeriodSound(periodWork[q])
      BY DEF PeriodInv
    <3>2. QED
      BY <1>0, <1>3, <2>2, <2>3, <3>1 DEF PeriodSound, StillKnows
  <2>5. PeriodInv'
    BY <1>1, <1>4, <1>5, <2>4, PeriodOthers
  <2>6. CurrentUsable => CurrentUsable'
    BY <1>0, <1>2, <2>2 DEF CurrentUsable
  <2>7. QED
    BY <2>5, <2>6
<1>8. QED
  BY <1>0, <1>6, <1>7

(* A session goes with its terms, which nothing refers to. *)
LEMMA PeriodDeleted ==
  ASSUME PeriodInv, NEW r \in PeriodReqs, CommitDeletePeriod(r)
  PROVE  PeriodInv' /\ (CurrentUsable => CurrentUsable')
<1> DEFINE w == periodWork[r]
<1>0. /\ w \in PeriodWorks /\ w.op = "delete" /\ Performs(r) /\ UNCHANGED dated
      /\ current' \in {current, "none"} /\ current' \notin w.ids
      /\ \A p \in Known \ w.ids : within[p] \notin w.ids
      /\ \A d \in Datables : dated[d] \notin w.ids
      /\ period' = [p \in PeriodIds |-> IF p \in w.ids THEN "none" ELSE period[p]]
      /\ within' = [p \in PeriodIds |-> IF p \in w.ids THEN "top" ELSE within[p]]
  BY DEF CommitDeletePeriod, PeriodInv, PeriodSound, Cleared, NothingRefers
<1>1. HaveMet(r)
  BY <1>0, PeriodPerformed
<1>2. /\ period \in [PeriodIds -> {"none", "active", "archived"}]
      /\ within \in [PeriodIds -> PeriodIds \union {"top"}]
      /\ current \in Known \union {"none"}
      /\ TwoLevels /\ "none" \notin PeriodIds /\ "top" \notin PeriodIds
      /\ Known \subseteq PeriodIds
  BY PeriodIdsAssumption DEF PeriodInv, PeriodTypeOK, RefersToKnown, Known
<1>3. /\ Known' = Known \ w.ids
      /\ \A p \in Known' : /\ period'[p] = period[p] /\ within'[p] = within[p]
                           /\ within[p] # "top" => within[p] \in Known'
  BY <1>0, <1>2 DEF Known, TwoLevels
<1>4. \A p \in Known' : Usable(p)' <=> Usable(p)
  BY <1>3 DEF Usable
<1>5. PeriodTypeOK'
  BY <1>0, <1>1, <1>2 DEF PeriodInv, PeriodTypeOK, HaveMet, PeriodWorks, Known
<1>6. TwoLevels' /\ RefersToKnown'
  BY <1>0, <1>2, <1>3 DEF PeriodInv, TwoLevels, RefersToKnown
<1>7. current' # "none" => current' = current /\ current \in Known'
  BY <1>0, <1>2, <1>3
<1>8. ASSUME NEW q \in PeriodReqs \ {r}
      PROVE  StillKnows(periodWork[q], w.op)
  <2>1. PeriodSound(periodWork[q])
    BY DEF PeriodInv
  <2>2. \A p \in PeriodIds : ClearsCurrent(p)' => ClearsCurrent(p)
    BY <1>3, <1>7 DEF ClearsCurrent
  <2>3. \A p \in Known' : p \in Known
    BY <1>3
  <2>4. QED
    BY <1>3, <1>4, <2>1, <2>2, <2>3 DEF PeriodSound, StillKnows
<1>9. PeriodInv'
  BY <1>1, <1>5, <1>6, <1>8, PeriodOthers
<1>10. QED
  BY <1>4, <1>7, <1>9 DEF CurrentUsable

(* Another current period is chosen, or none. *)
LEMMA CurrentChosen ==
  ASSUME PeriodInv, NEW r \in PeriodReqs, CommitCurrent(r)
  PROVE  /\ PeriodInv'
         /\ CurrentUsable => CurrentUsable' \/ (periodWork[r].op = "current" /\ "archive" \in periodWork[r].met)
<1> DEFINE w == periodWork[r]
<1>0. /\ w \in PeriodWorks /\ PeriodSound(w) /\ w.op = "current" /\ Performs(r)
      /\ UNCHANGED <<period, within, dated>>
      /\ w.sets => w.p \in Known \union {"none"}
      /\ current' = IF w.sets THEN w.p ELSE current
  BY DEF CommitCurrent, PeriodInv, PeriodSound
<1>1. HaveMet(r)
  BY <1>0, PeriodPerformed
<1>2. Known' = Known /\ \A p : Usable(p)' <=> Usable(p)
  BY <1>0 DEF Known, Usable
<1>3. current' \in Known \union {"none"} /\ Known \subseteq PeriodIds
  BY <1>0 DEF PeriodInv, RefersToKnown, Known
<1>4. PeriodTypeOK'
  BY <1>0, <1>1, <1>3 DEF PeriodInv, PeriodTypeOK, HaveMet, PeriodWorks
<1>5. TwoLevels' /\ RefersToKnown'
  BY <1>0, <1>2, <1>3 DEF PeriodInv, TwoLevels, RefersToKnown
<1>6. ASSUME NEW q \in PeriodReqs \ {r}
      PROVE  StillKnows(periodWork[q], w.op)
  <2>1. PeriodSound(periodWork[q])
    BY DEF PeriodInv
  <2>2. QED
    BY <1>0, <1>2, <2>1 DEF PeriodSound, StillKnows
<1>7. PeriodInv'
  BY <1>1, <1>4, <1>5, <1>6, PeriodOthers
<1>8. ASSUME CurrentUsable, "archive" \notin w.met PROVE CurrentUsable'
  <2>1. w.p \in Known => Usable(w.p)
    BY <1>0, <1>8 DEF PeriodSound
  <2>2. ASSUME current' # "none" PROVE \E p \in PeriodIds : p = current' /\ Usable(p)
    BY <1>0, <1>3, <1>8, <2>1, <2>2 DEF CurrentUsable
  <2>3. QED
    BY <1>2, <2>2 DEF CurrentUsable, Usable
<1>9. QED
  BY <1>0, <1>7, <1>8

(* A question or an exam gets a period, and the steps that change no row.  *)
LEMMA PeriodDated ==
  ASSUME PeriodInv, NEW r \in PeriodReqs, CommitDate(r)
  PROVE  PeriodInv' /\ (CurrentUsable => CurrentUsable')
<1> DEFINE w == periodWork[r]
<1>0. /\ w \in PeriodWorks /\ PeriodSound(w) /\ w.op = "date" /\ Performs(r)
      /\ UNCHANGED <<period, within, current>>
      /\ w.p \in Known \union {"none"}
      /\ dated' = [dated EXCEPT ![w.on] = w.p]
  BY DEF CommitDate, PeriodInv, PeriodSound
<1>1. HaveMet(r)
  BY <1>0, PeriodPerformed
<1>2. /\ Known' = Known /\ \A p : (Usable(p)' <=> Usable(p)) /\ (ClearsCurrent(p)' <=> ClearsCurrent(p))
  BY <1>0 DEF Known, Usable, ClearsCurrent
<1>3. PeriodTypeOK'
  BY <1>0, <1>1 DEF PeriodInv, PeriodTypeOK, HaveMet, PeriodWorks, Known, PeriodSound
<1>4. TwoLevels' /\ RefersToKnown'
  BY <1>0, <1>2 DEF PeriodInv, TwoLevels, RefersToKnown, PeriodTypeOK
<1>5. ASSUME NEW q \in PeriodReqs \ {r}
      PROVE  StillKnows(periodWork[q], w.op)
  <2>1. PeriodSound(periodWork[q])
    BY DEF PeriodInv
  <2>2. QED
    BY <1>0, <1>2, <2>1 DEF PeriodSound, StillKnows
<1>6. PeriodInv'
  BY <1>1, <1>3, <1>4, <1>5, PeriodOthers
<1>7. QED
  BY <1>0, <1>6 DEF CurrentUsable, Usable

LEMMA PeriodQuiet ==
  ASSUME PeriodInv, (\E r \in PeriodReqs : DropPeriod(r)) \/ UNCHANGED periodVars
  PROVE  PeriodInv' /\ (CurrentUsable => CurrentUsable')
<1>1. UNCHANGED <<period, within, current, dated>>
  BY DEF DropPeriod, periodVars
<1>2. /\ periodWork' \in [PeriodReqs -> PeriodWorks]
      /\ \A r \in PeriodReqs : periodWork'[r] \in {periodWork[r], NoPeriodWork}
  BY NoPeriodWorkIsNone DEF DropPeriod, periodVars, PeriodInv, PeriodTypeOK, PeriodWorks
<1>3. Known' = Known /\ \A w : PeriodSound(w)' <=> PeriodSound(w)
  BY <1>1 DEF Known, PeriodSound, Usable, ClearsCurrent
<1>4. \A r \in PeriodReqs : PeriodSound(periodWork[r])'
  <2>1. PeriodSound(NoPeriodWork)
    BY NoPeriodWorkIsNone DEF PeriodSound
  <2>2. \A r \in PeriodReqs : PeriodSound(periodWork'[r])
    BY <1>2, <2>1 DEF PeriodInv
  <2>3. QED
    BY <1>3, <2>2
<1>5. NamedOnce'
  <2>1. \A r \in PeriodReqs : periodWork[r].op = "create" => periodWork[r].p \in PeriodIds
    BY DEF PeriodInv, PeriodSound
  <2>2. QED
    BY <1>2, <2>1, NoPeriodWorkIsNone, PeriodIdsAssumption DEF NamedOnce, PeriodInv, NoPeriodWork
<1>6. PeriodTypeOK' /\ TwoLevels' /\ RefersToKnown'
  BY <1>1, <1>2, <1>3 DEF PeriodInv, PeriodTypeOK, TwoLevels, RefersToKnown, PeriodWorks
<1>7. QED
  BY <1>1, <1>4, <1>5, <1>6 DEF PeriodInv, CurrentUsable, Usable

LEMMA PeriodStays ==
  ASSUME PeriodInv, [PeriodNext]_periodVars
  PROVE  /\ PeriodInv'
         /\ CurrentUsable => CurrentUsable' \/ RacedPeriod("archive", "current")
                                            \/ RacedPeriod("current", "archive")
<1>1. ASSUME NEW r \in PeriodReqs, NEW w, PlansWell(r, w)
      PROVE  PeriodInv' /\ (CurrentUsable => CurrentUsable')
  <2>1. UNCHANGED <<period, within, current>>
    BY <1>1 DEF PlansWell, Plans
  <2>2. QED
    BY <1>1, <2>1, PeriodPlanned DEF CurrentUsable, Usable
<1>2. ASSUME NEW r \in PeriodReqs, Performs(r) PROVE periodWork'[r].op = "none"
  BY <1>2 DEF Performs, NoPeriodWork
<1>3. ASSUME NEW r \in PeriodReqs, CommitPeriodStatus(r) \/ CommitCurrent(r)
      PROVE  /\ PeriodInv'
             /\ CurrentUsable => CurrentUsable' \/ RacedPeriod("archive", "current")
                                                \/ RacedPeriod("current", "archive")
  <2>1. periodWork'[r].op = "none"
    BY <1>2, <1>3 DEF CommitPeriodStatus, CommitCurrent
  <2>2. QED
    BY <1>3, <2>1, PeriodStatusSet, CurrentChosen DEF RacedPeriod
<1>4. ASSUME NEW r \in PeriodReqs, PeriodStep(r)
      PROVE  \/ \E w : PlansWell(r, w)
             \/ CommitPeriod(r) \/ CommitPeriodStatus(r) \/ CommitDeletePeriod(r)
             \/ CommitCurrent(r) \/ CommitDate(r) \/ DropPeriod(r)
  BY <1>4, PeriodAsked
<1>5. QED
  BY <1>1, <1>3, <1>4, PeriodCreated, PeriodDeleted, PeriodDated, PeriodQuiet DEF PeriodNext

(* The invariant behind PeriodsKept: the periods, terms and current period *)
(* a request has read are still so, or it has met what changed them        *)
(* (period_service.py).                                                    *)
THEOREM PeriodInvariance == PeriodSpec => []PeriodInv
BY PeriodsBegin, PeriodStays, PTL DEF PeriodSpec

(* Every variable of the periods has its type.                             *)
THEOREM PeriodsTyped == PeriodSpec => []PeriodTypeOK
<1>1. PeriodInv => PeriodTypeOK
  BY DEF PeriodInv
<1>2. QED
  BY <1>1, PeriodInvariance, PTL

(* However many requests there are: sessions and terms are two levels,     *)
(* nothing refers to a deleted period, and the current period can be used  *)
(* unless choosing it overlapped archiving it.                             *)
THEOREM PeriodsStayKept == PeriodSpec => PeriodsKept
<1>1. PeriodInv /\ PeriodInv' /\ [PeriodNext]_periodVars =>
        [ /\ TwoLevels'
          /\ current' \in Known' \union {"none"}
          /\ \A d \in Datables : dated'[d] \in Known' \union {"none"}
          /\ CurrentUsable => CurrentUsable' \/ RacedPeriod("archive", "current")
                                             \/ RacedPeriod("current", "archive") ]_periodVars
  BY PeriodStays DEF PeriodInv, RefersToKnown
<1>2. QED
  BY <1>1, PeriodInvariance, PTL DEF PeriodSpec, PeriodsKept

---------------------------------------------------------------------------
(***************************************************************************)
(* The staff of the banks. What a request has read of the staff and of     *)
(* their grants holds until it meets whoever changes that.                 *)
(***************************************************************************)
StaffWorks ==
  [op : StaffOps \union {"none"}, pc : {"idle", "delete", "commit"},
   rows : SUBSET AssignedRows, adds : SUBSET Grants, drops : SUBSET Grants,
   b : Banks \union {"none"}, status : {"keep", "active", "archived"},
   met : SUBSET StaffOps]

StaffSound(w) ==
  /\ w \in StaffWorks
  /\ w.pc = "idle" <=> w.op = "none"
  /\ w.pc = "delete" => w.op = "unassign"
  /\ w.op = "assign" => /\ \E x \in AssignedRows : w.rows = {x}
                        /\ "assign" \notin w.met => \A x \in w.rows : ~WorksOn(x[1])
  /\ w.op = "unassign" =>
       /\ \E x \in AssignedRows : w.rows = {x}
       /\ w.pc = "commit" /\ w.met \intersect {"grant", "create"} = {} =>
            \A g \in given, x \in w.rows : g[2] = x[1] => g \in w.drops
  /\ w.op = "create" => w.b \in Banks /\ w.status = "active" /\ \A g \in w.adds : g[1] = w.b
  /\ w.op = "status" => w.b \in Banks /\ w.status # "keep" /\ w.adds = {}
  /\ w.op = "grant" => \A g \in w.adds : g[1] \in KnownBanks
  /\ w.op \in {"create", "grant"} /\ "unassign" \notin w.met => \A g \in w.adds : WorksOn(g[2])
  /\ w.op = "file" =>
       /\ w.b \in Banks
       /\ w.met \intersect {"unassign", "grant", "status"} = {} =>
            bank[w.b] = "active" /\ w.adds \subseteq given

StaffInv == StaffTypeOK /\ \A r \in StaffReqs : StaffSound(staffWork[r])

LEMMA NoStaffWorkIsNone ==
  /\ NoStaffWork \in StaffWorks /\ NoStaffWork.op = "none" /\ NoStaffWork.pc = "idle"
BY DEF NoStaffWork, StaffWorks, StaffOps

LEMMA StaffBegins == StaffInit => StaffInv
<1> SUFFICES ASSUME StaffInit PROVE StaffInv
  OBVIOUS
<1>1. StaffSound(NoStaffWork)
  BY NoStaffWorkIsNone DEF StaffSound
<1>2. StaffTypeOK
  BY NoStaffWorkIsNone DEF StaffInit, StaffTypeOK, StaffWorks
<1>3. QED
  BY <1>1, <1>2 DEF StaffInv, StaffInit

(* A step that changes one request only. *)
LEMMA StaffTaken ==
  ASSUME StaffInv, NEW r \in StaffReqs, NEW w, StaffSound(w),
         staffWork' = [staffWork EXCEPT ![r] = w],
         UNCHANGED <<onSubject, bank, given, filled>>
  PROVE  /\ StaffInv' /\ (OnlySubjectStaff => OnlySubjectStaff') /\ (OneRowEach => OneRowEach')
<1>1. StaffTypeOK'
  BY DEF StaffInv, StaffTypeOK, StaffSound, StaffWorks
<1>2. \A v : StaffSound(v)' <=> StaffSound(v)
  BY DEF StaffSound, WorksOn, KnownBanks
<1>3. \A q \in StaffReqs : StaffSound(staffWork'[q])
  BY DEF StaffInv, StaffTypeOK
<1>4. QED
  BY <1>1, <1>2, <1>3 DEF StaffInv, OnlySubjectStaff, OneRowEach, KnownBanks, WorksOn

(* Every request decides on what it reads.                                 *)
LEMMA StaffAsked ==
  ASSUME StaffInv, NEW r \in StaffReqs, StaffStep(r)
  PROVE  \/ \E w : Takes(r, w) /\ StaffSound(w)
         \/ DeletesGrants(r) \/ DropStaff(r)
         \/ CommitOnSubject(r) \/ CommitUnassign(r) \/ CommitBank(r)
         \/ CommitGrant(r) \/ CommitFile(r)
<1>0. given \subseteq Grants /\ onSubject \subseteq AssignedRows
  BY DEF StaffInv, StaffTypeOK
<1> DEFINE Sound == \E w : Takes(r, w) /\ StaffSound(w)
<1> USE DEF NoStaffWork, StaffWorks, StaffOps
<1>1. ASSUME NEW u \in Staff, AskAssign(r, u)
      PROVE  Sound
  <2>1. PICK n \in 1..MaxStaffRows :
          Takes(r, [NoStaffWork EXCEPT !.op = "assign", !.pc = "commit", !.rows = {<<u, n>>}])
    BY <1>1 DEF AskAssign
  <2> DEFINE w == [NoStaffWork EXCEPT !.op = "assign", !.pc = "commit", !.rows = {<<u, n>>}]
  <2>2. <<u, n>> \in AssignedRows /\ ~WorksOn(u)
    BY <1>1 DEF AskAssign, AssignedRows
  <2>3. StaffSound(w)
    <3>1. w \in StaffWorks /\ w.op = "assign" /\ w.pc = "commit" /\ w.rows = {<<u, n>>}
      BY <2>2
    <3>2. \A x \in w.rows : ~WorksOn(x[1])
      BY <2>2, <3>1
    <3> HIDE DEF w
    <3>3. QED
      BY <2>2, <3>1, <3>2 DEF StaffSound
  <2>4. QED
    BY <2>1, <2>3
<1>2. ASSUME NEW x \in AssignedRows, AskUnassign(r, x)
      PROVE  Sound
  <2> DEFINE w == [NoStaffWork EXCEPT !.op = "unassign", !.pc = "delete", !.rows = {x}]
  <2>1. StaffSound(w)
    BY DEF StaffSound
  <2>2. QED
    BY <1>2, <2>1 DEF AskUnassign
<1>3. ASSUME NEW b \in Banks, NEW who \in AtMostOne, AskCreateBank(r, b, who)
      PROVE  Sound
  <2> DEFINE w == [NoStaffWork EXCEPT !.op = "create", !.pc = "commit", !.b = b,
                                      !.status = "active", !.adds = {b} \X who]
  <2>1. /\ {b} \X who \in SUBSET Grants
        /\ \A g \in {b} \X who : g[1] = b /\ WorksOn(g[2])
    BY <1>3 DEF AskCreateBank, AtMostOne, Grants
  <2>2. StaffSound(w)
    BY <2>1 DEF StaffSound
  <2>3. QED
    BY <1>3, <2>2 DEF AskCreateBank
<1>4. ASSUME NEW b \in Banks, NEW who \in AtMostOne, AskFile(r, b, who)
      PROVE  Sound
  <2> DEFINE w == [NoStaffWork EXCEPT !.op = "file", !.pc = "commit", !.b = b, !.adds = {b} \X who]
  <2>1. /\ {b} \X who \in SUBSET Grants /\ bank[b] = "active"
        /\ {b} \X who \subseteq given
    BY <1>4 DEF AskFile, AtMostOne, Grants
  <2>2. StaffSound(w)
    BY <2>1 DEF StaffSound
  <2>3. QED
    BY <1>4, <2>2 DEF AskFile
<1>5. ASSUME NEW b \in Banks, NEW to \in {"active", "archived"}, AskBankStatus(r, b, to)
      PROVE  Sound
  <2> DEFINE w == [NoStaffWork EXCEPT !.op = "status", !.pc = "commit", !.b = b, !.status = to]
  <2>1. StaffSound(w)
    BY DEF StaffSound
  <2>2. QED
    BY <1>5, <2>1 DEF AskBankStatus
<1>6. ASSUME NEW among \in SUBSET Grants, NEW want \in SUBSET Grants,
             \A g \in want : g[1] \in KnownBanks /\ WorksOn(g[2]),
             ReplaceGrants(r, among, want)
      PROVE  Sound
  <2> DEFINE w == [NoStaffWork EXCEPT !.op = "grant", !.pc = "commit",
                     !.adds = want \ given, !.drops = (among \intersect given) \ want]
  <2>1. want \ given \in SUBSET Grants /\ (among \intersect given) \ want \in SUBSET Grants
    BY <1>0
  <2>2. StaffSound(w)
    BY <1>6, <2>1 DEF StaffSound
  <2>3. QED
    BY <1>6, <2>2 DEF ReplaceGrants
<1>7. ASSUME NEW b \in Banks, NEW want \in SUBSET Staff, AskSetStaff(r, b, want)
      PROVE  Sound
  <2>1. {b} \X Staff \in SUBSET Grants /\ {b} \X want \in SUBSET Grants
    BY DEF Grants
  <2>2. /\ \A g \in {b} \X want : g[1] \in KnownBanks /\ WorksOn(g[2])
        /\ ReplaceGrants(r, {b} \X Staff, {b} \X want)
    BY <1>7 DEF AskSetStaff
  <2>3. QED
    BY <1>6, <2>1, <2>2
<1>8. ASSUME NEW u \in Staff, NEW want \in SUBSET Banks, AskSetBanks(r, u, want)
      PROVE  Sound
  <2>1. Banks \X {u} \in SUBSET Grants /\ want \X {u} \in SUBSET Grants
    BY DEF Grants
  <2>2. /\ \A g \in want \X {u} : g[1] \in KnownBanks /\ WorksOn(g[2])
        /\ ReplaceGrants(r, Banks \X {u}, want \X {u})
    BY <1>8 DEF AskSetBanks
  <2>3. QED
    BY <1>6, <2>1, <2>2
<1> HIDE DEF Sound
<1>9. QED
  BY <1>1, <1>2, <1>3, <1>4, <1>5, <1>7, <1>8 DEF StaffStep, Sound

(* What the others have when r is done: they have met it.                  *)
StaffMet(r) ==
  /\ staffWork' \in [StaffReqs -> StaffWorks]
  /\ staffWork'[r] = NoStaffWork
  /\ \A q \in StaffReqs \ {r} : LET w == staffWork[q] IN
       /\ staffWork'[q].op = w.op /\ staffWork'[q].pc = w.pc /\ staffWork'[q].rows = w.rows
       /\ staffWork'[q].adds = w.adds /\ staffWork'[q].drops = w.drops /\ staffWork'[q].b = w.b
       /\ staffWork'[q].status = w.status
       /\ \/ w.pc = "idle" /\ staffWork'[q] = w
          \/ staffWork'[q].met = w.met \union Notable(staffWork[r].op)

LEMMA StaffFinished ==
  ASSUME StaffInv, NEW r \in StaffReqs, Finishes(r), staffWork[r].op # "none"
  PROVE  StaffMet(r)
<1>1. /\ \A q \in StaffReqs : staffWork[q] \in StaffWorks
      /\ Notable(staffWork[r].op) \subseteq StaffOps
  BY DEF StaffInv, StaffSound, StaffWorks, Notable
<1>2. \A w \in StaffWorks, ops \in SUBSET StaffOps :
        LET v == [w EXCEPT !.met = @ \union ops] IN
        /\ v \in StaffWorks
        /\ v.op = w.op /\ v.pc = w.pc /\ v.rows = w.rows /\ v.adds = w.adds
        /\ v.drops = w.drops /\ v.b = w.b /\ v.status = w.status /\ v.met = w.met \union ops
  BY DEF StaffWorks
<1>3. /\ staffWork' \in [StaffReqs -> StaffWorks] /\ staffWork'[r] = NoStaffWork
      /\ \A q \in StaffReqs \ {r} :
           staffWork'[q] = IF staffWork[q].pc = "idle" THEN staffWork[q]
                           ELSE [staffWork[q] EXCEPT !.met = @ \union Notable(staffWork[r].op)]
  BY <1>1, <1>2, NoStaffWorkIsNone DEF Finishes
<1>4. ASSUME NEW q \in StaffReqs \ {r}
      PROVE  LET w == staffWork[q] IN
       /\ staffWork'[q].op = w.op /\ staffWork'[q].pc = w.pc /\ staffWork'[q].rows = w.rows
       /\ staffWork'[q].adds = w.adds /\ staffWork'[q].drops = w.drops /\ staffWork'[q].b = w.b
       /\ staffWork'[q].status = w.status
       /\ \/ w.pc = "idle" /\ staffWork'[q] = w
          \/ staffWork'[q].met = w.met \union Notable(staffWork[r].op)
  <2>1. CASE staffWork[q].pc = "idle"
    BY <1>3, <2>1
  <2>2. CASE staffWork[q].pc # "idle"
    <3>1. staffWork'[q] = [staffWork[q] EXCEPT !.met = @ \union Notable(staffWork[r].op)]
      BY <1>3, <2>2
    <3>2. QED
      BY <1>1, <1>2, <3>1
  <2>3. QED
    BY <2>1, <2>2
<1>5. QED
  BY <1>3, <1>4 DEF StaffMet

(* What a step of kind op has to keep of what another request knows.       *)
StaffStillSound(w, op) ==
  /\ w.op = "assign" /\ "assign" \notin w.met /\ op # "assign" =>
       \A x \in AssignedRows : x \in w.rows => ~WorksOn(x[1])'
  /\ w.op = "unassign" /\ w.pc = "commit" /\ w.met \intersect {"grant", "create"} = {}
       /\ op \notin {"grant", "create"} =>
            \A g \in given', x \in w.rows : g[2] = x[1] => g \in w.drops
  /\ w.op = "grant" => \A g \in w.adds : g[1] \in KnownBanks'
  /\ w.op \in {"create", "grant"} /\ "unassign" \notin w.met /\ op # "unassign" =>
       \A g \in Grants : g \in w.adds => WorksOn(g[2])'
  /\ w.op = "file" /\ w.met \intersect {"unassign", "grant", "status"} = {}
       /\ op \notin {"unassign", "grant", "status"} =>
            bank'[w.b] = "active" /\ w.adds \subseteq given'

LEMMA StaffOthers ==
  ASSUME StaffInv, NEW r \in StaffReqs, StaffMet(r), StaffTypeOK', staffWork[r].op # "none",
         \A q \in StaffReqs \ {r} : StaffStillSound(staffWork[q], staffWork[r].op)
  PROVE  StaffInv' /\ staffWork'[r].pc = "idle"
<1>1. StaffSound(staffWork[r])'
  BY NoStaffWorkIsNone DEF StaffMet, StaffSound
<1>2. ASSUME NEW q \in StaffReqs \ {r} PROVE StaffSound(staffWork[q])'
  <2> DEFINE w  == staffWork[q]
             v  == staffWork'[q]
             op == staffWork[r].op
  <2>1. StaffSound(w) /\ v \in StaffWorks /\ w \in StaffWorks /\ op \in StaffOps
    BY DEF StaffInv, StaffMet, StaffSound, StaffWorks
  <2>2. /\ v.op = w.op /\ v.pc = w.pc /\ v.rows = w.rows /\ v.adds = w.adds
        /\ v.drops = w.drops /\ v.b = w.b /\ v.status = w.status
        /\ w.op # "none" => v.met = w.met \union ({op} \ {"file"})
    BY <2>1 DEF StaffMet, Notable, StaffSound
  <2>3. StaffStillSound(w, op)
    OBVIOUS
  <2>4. v.adds \subseteq Grants /\ v.rows \subseteq AssignedRows
    BY <2>1 DEF StaffWorks
  <2> HIDE DEF w, op
  <2>5. /\ v.pc = "idle" <=> v.op = "none"
        /\ v.pc = "delete" => v.op = "unassign"
        /\ v.op = "assign" => /\ \E x \in AssignedRows : v.rows = {x}
                              /\ "assign" \notin v.met =>
                                   \A x \in AssignedRows : x \in v.rows => ~WorksOn(x[1])'
    BY <2>1, <2>2, <2>3 DEF StaffSound, StaffStillSound
  <2>6. v.op = "unassign" =>
       /\ \E x \in AssignedRows : v.rows = {x}
       /\ v.pc = "commit" /\ v.met \intersect {"grant", "create"} = {} =>
            \A g \in given', x \in v.rows : g[2] = x[1] => g \in v.drops
    BY <2>1, <2>2, <2>3 DEF StaffSound, StaffStillSound
  <2>7. /\ v.op = "create" => v.b \in Banks /\ v.status = "active" /\ \A g \in v.adds : g[1] = v.b
        /\ v.op = "status" => v.b \in Banks /\ v.status # "keep" /\ v.adds = {}
        /\ v.op = "grant" => \A g \in v.adds : g[1] \in KnownBanks'
        /\ v.op \in {"create", "grant"} /\ "unassign" \notin v.met =>
             \A g \in Grants : g \in v.adds => WorksOn(g[2])'
    BY <2>1, <2>2, <2>3 DEF StaffSound, StaffStillSound
  <2>8. v.op = "file" =>
       /\ v.b \in Banks
       /\ v.met \intersect {"unassign", "grant", "status"} = {} =>
            bank'[v.b] = "active" /\ v.adds \subseteq given'
    BY <2>1, <2>2, <2>3 DEF StaffSound, StaffStillSound
  <2>9. QED
    BY <2>1, <2>4, <2>5, <2>6, <2>7, <2>8 DEF StaffSound, WorksOn
<1>3. QED
  BY <1>1, <1>2, NoStaffWorkIsNone DEF StaffInv, StaffMet

LEMMA StaffAssigned ==
  ASSUME StaffInv, NEW r \in StaffReqs, CommitOnSubject(r)
  PROVE  /\ StaffInv' /\ staffWork[r].op = "assign" /\ staffWork[r].pc = "commit"
         /\ staffWork'[r].pc = "idle"
         /\ OnlySubjectStaff => OnlySubjectStaff'
         /\ OneRowEach => OneRowEach' \/ "assign" \in staffWork[r].met
<1> DEFINE w == staffWork[r]
<1>0. /\ w \in StaffWorks /\ StaffSound(w) /\ w.op = "assign" /\ w.pc = "commit" /\ Finishes(r)
      /\ onSubject' = onSubject \union w.rows
      /\ UNCHANGED <<bank, given, filled>>
  BY DEF CommitOnSubject, StaffInv, StaffSound
<1>1. StaffMet(r)
  BY <1>0, StaffFinished
<1>2. StaffTypeOK'
  BY <1>0, <1>1 DEF StaffInv, StaffTypeOK, StaffMet, StaffWorks
<1>3. KnownBanks' = KnownBanks /\ \A u : WorksOn(u) => WorksOn(u)'
  BY <1>0 DEF KnownBanks, WorksOn
<1>4. ASSUME NEW q \in StaffReqs \ {r} PROVE StaffStillSound(staffWork[q], w.op)
  <2>1. StaffSound(staffWork[q])
    BY DEF StaffInv
  <2>2. QED
    BY <1>0, <1>3, <2>1 DEF StaffSound, StaffStillSound
<1>5. StaffInv' /\ staffWork'[r].pc = "idle"
  BY <1>0, <1>1, <1>2, <1>4, StaffOthers
<1>6. ASSUME OneRowEach, "assign" \notin w.met PROVE OneRowEach'
  <2>1. PICK x \in AssignedRows : w.rows = {x}
    BY <1>0 DEF StaffSound
  <2>2. \A y \in onSubject : y[1] # x[1]
    BY <1>0, <1>6, <2>1 DEF StaffSound, WorksOn
  <2>3. QED
    BY <1>0, <1>6, <2>1, <2>2 DEF OneRowEach
<1>7. QED
  BY <1>0, <1>3, <1>5, <1>6 DEF OnlySubjectStaff

LEMMA StaffUnassigned ==
  ASSUME StaffInv, NEW r \in StaffReqs, CommitUnassign(r)
  PROVE  /\ StaffInv' /\ staffWork[r].op = "unassign" /\ staffWork[r].pc = "commit"
         /\ staffWork'[r].pc = "idle"
         /\ OnlySubjectStaff =>
              OnlySubjectStaff' \/ staffWork[r].met \intersect {"grant", "create"} # {}
         /\ OneRowEach => OneRowEach'
<1> DEFINE w == staffWork[r]
<1>0. /\ w \in StaffWorks /\ StaffSound(w) /\ w.op = "unassign" /\ w.pc = "commit" /\ Finishes(r)
      /\ onSubject' = onSubject \ w.rows
      /\ given' = given \ w.drops
      /\ UNCHANGED <<bank, filled>>
  BY DEF CommitUnassign, StaffInv, StaffSound
<1>1. StaffMet(r)
  BY <1>0, StaffFinished
<1>2. StaffTypeOK'
  BY <1>0, <1>1 DEF StaffInv, StaffTypeOK, StaffMet, StaffWorks
<1>3. KnownBanks' = KnownBanks /\ \A u : WorksOn(u)' => WorksOn(u)
  BY <1>0 DEF KnownBanks, WorksOn
<1>4. ASSUME NEW q \in StaffReqs \ {r} PROVE StaffStillSound(staffWork[q], w.op)
  <2>1. StaffSound(staffWork[q])
    BY DEF StaffInv
  <2>2. QED
    BY <1>0, <1>3, <2>1 DEF StaffSound, StaffStillSound
<1>5. StaffInv' /\ staffWork'[r].pc = "idle"
  BY <1>0, <1>1, <1>2, <1>4, StaffOthers
<1>6. ASSUME OnlySubjectStaff, w.met \intersect {"grant", "create"} = {} PROVE OnlySubjectStaff'
  <2>1. PICK x \in AssignedRows : w.rows = {x}
    BY <1>0 DEF StaffSound
  <2>2. \A g \in given' : g \in given /\ g[2] # x[1]
    BY <1>0, <1>6, <2>1 DEF StaffSound
  <2>3. \A u : u # x[1] /\ WorksOn(u) => WorksOn(u)'
    BY <1>0, <2>1 DEF WorksOn
  <2>4. QED
    BY <1>3, <1>6, <2>2, <2>3 DEF OnlySubjectStaff
<1>7. QED
  BY <1>0, <1>5, <1>6 DEF OneRowEach

LEMMA BankCommitted ==
  ASSUME StaffInv, NEW r \in StaffReqs, CommitBank(r)
  PROVE  /\ StaffInv' /\ staffWork[r].op \in {"create", "status"} /\ staffWork[r].pc = "commit"
         /\ staffWork'[r].pc = "idle"
         /\ OnlySubjectStaff => OnlySubjectStaff' \/ (staffWork[r].op = "create" /\ "unassign" \in staffWork[r].met)
         /\ OneRowEach => OneRowEach'
<1> DEFINE w == staffWork[r]
<1>0. /\ w \in StaffWorks /\ StaffSound(w) /\ w.op \in {"create", "status"} /\ w.pc = "commit"
      /\ Finishes(r)
      /\ bank' = [bank EXCEPT ![w.b] = w.status]
      /\ given' = given \union w.adds
      /\ bank \in [Banks -> {"none", "active", "archived"}]
      /\ UNCHANGED <<onSubject, filled>>
  BY DEF CommitBank, StaffInv, StaffSound, StaffTypeOK
<1>1. StaffMet(r)
  BY <1>0, StaffFinished
<1>2. w.b \in Banks /\ w.status \in {"active", "archived"}
  BY <1>0 DEF StaffSound, StaffWorks
<1>3. /\ bank' \in [Banks -> {"none", "active", "archived"}]
      /\ KnownBanks' = KnownBanks \union {w.b}
  BY <1>0, <1>2 DEF KnownBanks
<1>4. StaffTypeOK'
  BY <1>0, <1>1, <1>3 DEF StaffInv, StaffTypeOK, StaffMet, StaffWorks
<1>5. \A u : WorksOn(u)' <=> WorksOn(u)
  BY <1>0 DEF WorksOn
<1>6. ASSUME NEW q \in StaffReqs \ {r} PROVE StaffStillSound(staffWork[q], w.op)
  <2>1. StaffSound(staffWork[q])
    BY DEF StaffInv
  <2>2. w.op = "status" => given' = given
    BY <1>0 DEF StaffSound
  <2>3. w.op = "create" => \A b \in Banks : bank[b] = "active" => bank'[b] = "active"
    BY <1>0 DEF StaffSound
  <2>4. QED
    BY <1>0, <1>3, <1>5, <2>1, <2>2, <2>3 DEF StaffSound, StaffStillSound
<1>7. StaffInv' /\ staffWork'[r].pc = "idle"
  BY <1>0, <1>1, <1>4, <1>6, StaffOthers
<1>8. ASSUME OnlySubjectStaff, ~ (w.op = "create" /\ "unassign" \in w.met) PROVE OnlySubjectStaff'
  <2>1. \A g \in w.adds : g[1] = w.b /\ WorksOn(g[2])
    BY <1>0, <1>8 DEF StaffSound
  <2>2. QED
    BY <1>0, <1>3, <1>5, <1>8, <2>1 DEF OnlySubjectStaff
<1>9. QED
  BY <1>0, <1>7, <1>8 DEF OneRowEach

LEMMA GrantCommitted ==
  ASSUME StaffInv, NEW r \in StaffReqs, CommitGrant(r)
  PROVE  /\ StaffInv' /\ staffWork[r].op = "grant" /\ staffWork[r].pc = "commit"
         /\ staffWork'[r].pc = "idle"
         /\ OnlySubjectStaff => OnlySubjectStaff' \/ "unassign" \in staffWork[r].met
         /\ OneRowEach => OneRowEach'
<1> DEFINE w == staffWork[r]
<1>0. /\ w \in StaffWorks /\ StaffSound(w) /\ w.op = "grant" /\ w.pc = "commit" /\ Finishes(r)
      /\ given' = (given \ w.drops) \union w.adds
      /\ UNCHANGED <<onSubject, bank, filled>>
  BY DEF CommitGrant, StaffInv, StaffSound
<1>1. StaffMet(r)
  BY <1>0, StaffFinished
<1>2. StaffTypeOK'
  BY <1>0, <1>1 DEF StaffInv, StaffTypeOK, StaffMet, StaffWorks
<1>3. KnownBanks' = KnownBanks /\ \A u : WorksOn(u)' <=> WorksOn(u)
  BY <1>0 DEF WorksOn, KnownBanks
<1>4. ASSUME NEW q \in StaffReqs \ {r} PROVE StaffStillSound(staffWork[q], w.op)
  <2>1. StaffSound(staffWork[q])
    BY DEF StaffInv
  <2>2. QED
    BY <1>0, <1>3, <2>1 DEF StaffSound, StaffStillSound
<1>5. StaffInv' /\ staffWork'[r].pc = "idle"
  BY <1>0, <1>1, <1>2, <1>4, StaffOthers
<1>6. ASSUME OnlySubjectStaff, "unassign" \notin w.met PROVE OnlySubjectStaff'
  BY <1>0, <1>3, <1>6 DEF OnlySubjectStaff, StaffSound
<1>7. QED
  BY <1>0, <1>5, <1>6 DEF OneRowEach

LEMMA BankFilled ==
  ASSUME StaffInv, NEW r \in StaffReqs, CommitFile(r)
  PROVE  /\ StaffInv' /\ staffWork[r].op = "file" /\ staffWork[r].pc = "commit"
         /\ staffWork'[r].pc = "idle"
         /\ OnlySubjectStaff => OnlySubjectStaff'
         /\ OneRowEach => OneRowEach'
         /\ \A q \in StaffReqs \ {r} : staffWork'[q].pc = staffWork[q].pc
         /\ \/ bank[staffWork[r].b] = "active" /\ staffWork[r].adds \subseteq given
            \/ staffWork[r].met \intersect {"unassign", "grant", "status"} # {}
<1> DEFINE w == staffWork[r]
<1>0. /\ w \in StaffWorks /\ StaffSound(w) /\ w.op = "file" /\ w.pc = "commit" /\ Finishes(r)
      /\ filled' = filled \union {w.b} /\ w.b \in Banks
      /\ UNCHANGED <<onSubject, bank, given>>
  BY DEF CommitFile, StaffInv, StaffSound
<1>1. StaffMet(r)
  BY <1>0, StaffFinished
<1>2. StaffTypeOK'
  BY <1>0, <1>1 DEF StaffInv, StaffTypeOK, StaffMet, StaffWorks
<1>3. KnownBanks' = KnownBanks /\ \A u : WorksOn(u)' <=> WorksOn(u)
  BY <1>0 DEF WorksOn, KnownBanks
<1>4. ASSUME NEW q \in StaffReqs \ {r} PROVE StaffStillSound(staffWork[q], w.op)
  <2>1. StaffSound(staffWork[q])
    BY DEF StaffInv
  <2>2. QED
    BY <1>0, <1>3, <2>1 DEF StaffSound, StaffStillSound
<1>5. StaffInv' /\ staffWork'[r].pc = "idle"
  BY <1>0, <1>1, <1>2, <1>4, StaffOthers
<1>6. QED
  BY <1>0, <1>1, <1>3, <1>5 DEF OneRowEach, OnlySubjectStaff, StaffSound, StaffMet

LEMMA StaffQuiet ==
  ASSUME StaffInv, NEW r \in StaffReqs, DeletesGrants(r) \/ DropStaff(r)
  PROVE  \E w : /\ StaffSound(w) /\ staffWork' = [staffWork EXCEPT ![r] = w]
                /\ UNCHANGED <<onSubject, bank, given, filled>>
<1>1. CASE DeletesGrants(r)
  <2> DEFINE v == staffWork[r]
             w == [v EXCEPT !.pc = "commit", !.met = {},
                            !.drops = {g \in given : \E x \in v.rows : g[2] = x[1]}]
  <2>1. v \in StaffWorks /\ StaffSound(v) /\ v.pc = "delete" /\ given \subseteq Grants
    BY <1>1 DEF DeletesGrants, StaffInv, StaffSound, StaffTypeOK
  <2>2. v.op = "unassign"
    BY <2>1 DEF StaffSound
  <2>3. StaffSound(w)
    <3>1. /\ w \in StaffWorks /\ w.op = "unassign" /\ w.pc = "commit" /\ w.rows = v.rows
          /\ w.drops = {g \in given : \E x \in v.rows : g[2] = x[1]}
      BY <2>1, <2>2 DEF StaffWorks
    <3> HIDE DEF w
    <3>2. QED
      BY <2>1, <2>2, <3>1 DEF StaffSound
  <2>4. staffWork' = [staffWork EXCEPT ![r] = w] /\ UNCHANGED <<onSubject, bank, given, filled>>
    BY <1>1 DEF DeletesGrants, StaffInv, StaffTypeOK, StaffWorks
  <2>5. QED
    BY <2>3, <2>4
<1>2. CASE DropStaff(r)
  BY <1>2, NoStaffWorkIsNone DEF DropStaff, StaffSound
<1>3. QED
  BY <1>1, <1>2

LEMMA StaffStays ==
  ASSUME StaffInv, [StaffNext]_staffVars
  PROVE  /\ StaffInv'
         /\ OnlySubjectStaff => \/ OnlySubjectStaff'
                                \/ RacedStaff({"grant", "create"}, {"unassign"})
                                \/ RacedStaff({"unassign"}, {"grant", "create"})
         /\ OneRowEach => OneRowEach' \/ RacedStaff({"assign"}, {"assign"})
         /\ \A r \in StaffReqs : Settled(r, {"file"}) /\ filled' # filled =>
              \/ bank[staffWork[r].b] = "active" /\ staffWork[r].adds \subseteq given
              \/ RacedStaff({"file"}, {"unassign", "grant", "status"})
<1> DEFINE Kept ==
      /\ StaffInv'
      /\ OnlySubjectStaff => \/ OnlySubjectStaff'
                             \/ RacedStaff({"grant", "create"}, {"unassign"})
                             \/ RacedStaff({"unassign"}, {"grant", "create"})
      /\ OneRowEach => OneRowEach' \/ RacedStaff({"assign"}, {"assign"})
      /\ \A r \in StaffReqs : Settled(r, {"file"}) /\ filled' # filled =>
           \/ bank[staffWork[r].b] = "active" /\ staffWork[r].adds \subseteq given
           \/ RacedStaff({"file"}, {"unassign", "grant", "status"})
<1>1. ASSUME NEW r \in StaffReqs, NEW w, StaffSound(w), staffWork' = [staffWork EXCEPT ![r] = w],
             UNCHANGED <<onSubject, bank, given, filled>>
      PROVE  Kept
  BY <1>1, StaffTaken
<1>2. ASSUME NEW r \in StaffReqs, CommitOnSubject(r) \/ CommitUnassign(r) \/ CommitBank(r) \/ CommitGrant(r)
      PROVE  Kept
  <2>1. filled' = filled
    BY <1>2 DEF CommitOnSubject, CommitUnassign, CommitBank, CommitGrant
  <2>2. CASE CommitOnSubject(r)
    BY <2>1, <2>2, StaffAssigned DEF RacedStaff, Settled
  <2>3. CASE CommitUnassign(r)
    BY <2>1, <2>3, StaffUnassigned DEF RacedStaff, Settled
  <2>4. CASE CommitBank(r)
    BY <2>1, <2>4, BankCommitted DEF RacedStaff, Settled
  <2>5. CASE CommitGrant(r)
    BY <2>1, <2>5, GrantCommitted DEF RacedStaff, Settled
  <2>6. QED
    BY <1>2, <2>2, <2>3, <2>4, <2>5
<1>3. ASSUME NEW r \in StaffReqs, CommitFile(r)
      PROVE  Kept
  <2>1. ASSUME NEW q \in StaffReqs, Settled(q, {"file"}) PROVE q = r
    BY <1>3, <2>1, BankFilled DEF Settled
  <2>2. QED
    BY <1>3, <2>1, BankFilled DEF RacedStaff, Settled
<1>4. ASSUME UNCHANGED staffVars
      PROVE  Kept
  <2>1. UNCHANGED <<onSubject, bank, given, filled, staffWork>>
    BY <1>4 DEF staffVars
  <2>2. StaffInv'
    BY <2>1 DEF StaffInv, StaffTypeOK, StaffSound, WorksOn, KnownBanks
  <2>3. QED
    BY <2>1, <2>2 DEF OnlySubjectStaff, OneRowEach, WorksOn, KnownBanks
<1> HIDE DEF Kept
<1>5. ASSUME NEW r \in StaffReqs, StaffStep(r)
      PROVE  Kept
  <2>1. CASE \E w : Takes(r, w) /\ StaffSound(w)
    BY <1>1, <2>1 DEF Takes
  <2>2. CASE DeletesGrants(r) \/ DropStaff(r)
    BY <1>1, <2>2, StaffQuiet
  <2>3. QED
    BY <1>2, <1>3, <1>5, <2>1, <2>2, StaffAsked
<1>6. QED
  BY <1>4, <1>5 DEF StaffNext, Kept

(* The invariant behind StaffKept: who a request has read to be on a       *)
(* subject is still on it, or it has met what changed that                 *)
(* (subject_service.py, bank_topic_service.py).                            *)
THEOREM StaffInvariance == StaffSpec => []StaffInv
BY StaffBegins, StaffStays, PTL DEF StaffSpec

(* Every variable of the banks and their staff has its type.               *)
THEOREM StaffTyped == StaffSpec => []StaffTypeOK
<1>1. StaffInv => StaffTypeOK
  BY DEF StaffInv
<1>2. QED
  BY <1>1, StaffInvariance, PTL

(* However many requests there are: only staff of a subject have its       *)
(* banks, once each, and only they fill them, unless requests overlapped.  *)
THEOREM StaffStayKept == StaffSpec => StaffKept
<1>1. StaffInv /\ [StaffNext]_staffVars =>
        [ /\ OnlySubjectStaff => \/ OnlySubjectStaff'
                                 \/ RacedStaff({"grant", "create"}, {"unassign"})
                                 \/ RacedStaff({"unassign"}, {"grant", "create"})
          /\ OneRowEach => OneRowEach' \/ RacedStaff({"assign"}, {"assign"})
          /\ \A r \in StaffReqs : Settled(r, {"file"}) /\ filled' # filled =>
               \/ bank[staffWork[r].b] = "active" /\ staffWork[r].adds \subseteq given
               \/ RacedStaff({"file"}, {"unassign", "grant", "status"}) ]_staffVars
  BY StaffStays
<1>2. QED
  BY <1>1, StaffInvariance, PTL DEF StaffSpec, StaffKept

---------------------------------------------------------------------------
(***************************************************************************)
(* Questions.                                                              *)
(***************************************************************************)
(* Each row counts once in the marks of an exam's rows. *)
LEMMA AddsUnfolds ==
  ASSUME NEW S \in SUBSET Copies, IsFiniteSet(S)
  PROVE  \E g : g = AddStep([c \in S |-> c.m], S, g) /\ Adds(S) = g[S]
<1> DEFINE w       == [c \in S |-> c.m]
           step(g) == [s \in SUBSET S |-> IF s = {} THEN 0 ELSE Pick(s).m + g[s \ {Pick(s)}]]
<1>1. Adds(S) = (CHOOSE g : g = step(g))[S]
  BY Zenon DEF Adds, MapThenSumSet, MapThenFoldSet, Pick
<1>2. \A g : step(g) = AddStep(w, S, g)
  <2>1. \A s \in SUBSET S : s # {} => w[Pick(s)] = Pick(s).m
    BY Picked
  <2>2. QED
    BY <2>1 DEF AddStep
<1>3. \E g : g = step(g)
  <2>0. w \in [S -> Nat]
    BY MarkValuesAssumption DEF Copies
  <2> HIDE DEF w, step
  <2>1. PICK g : g = AddStep(w, S, g)
    BY <2>0, SumExists
  <2>2. g = step(g)
    BY <1>2, <2>1
  <2>3. QED
    BY <2>2
<1> HIDE DEF step
<1>4. QED
  BY <1>1, <1>2, <1>3

LEMMA AddsTakes ==
  ASSUME NEW S \in SUBSET Copies, IsFiniteSet(S)
  PROVE  /\ S = {} => Adds(S) = 0
         /\ Adds(S) \in Nat
         /\ \A c \in S : Adds(S) = c.m + Adds(S \ {c})
<1> DEFINE w == [c \in S |-> c.m]
<1>1. PICK g : g = AddStep(w, S, g) /\ Adds(S) = g[S]
  BY AddsUnfolds
<1>2. w \in [S -> Nat] /\ \A c \in S : w[c] = c.m
  BY MarkValuesAssumption DEF Copies
<1> HIDE DEF w
<1>3. /\ g[{}] = 0
      /\ g[S] \in Nat
      /\ \A c \in S : g[S] = w[c] + g[S \ {c}]
  <2>1. /\ g[{}] = 0
        /\ \A s \in SUBSET S : g[s] \in Nat /\ \A c \in s : g[s] = w[c] + g[s \ {c}]
    BY <1>1, <1>2, SumTakes
  <2>2. S \in SUBSET S
    OBVIOUS
  <2>3. QED
    BY <2>1, <2>2
<1>4. ASSUME NEW c \in S PROVE g[S \ {c}] = Adds(S \ {c})
  <2>1. S \ {c} \in SUBSET Copies /\ S \ {c} \in SUBSET S /\ IsFiniteSet(S \ {c})
    BY FS_RemoveElement
  <2> DEFINE v == [x \in S \ {c} |-> x.m]
  <2>2. PICK h : h = AddStep(v, S \ {c}, h) /\ Adds(S \ {c}) = h[S \ {c}]
    BY <2>1, AddsUnfolds
  <2>3. \A x \in S \ {c} : w[x] = v[x]
    BY <1>2
  <2> HIDE DEF v
  <2>4. QED
    BY <1>1, <2>1, <2>2, <2>3, SumAgrees
<1>5. QED
  BY <1>1, <1>2, <1>3, <1>4

LEMMA AddsOne ==
  ASSUME NEW c \in Copies
  PROVE  Adds({c}) = c.m
<1>1. IsFiniteSet({c}) /\ {c} \in SUBSET Copies /\ {c} \ {c} = {}
  BY FS_Singleton
<1>2. IsFiniteSet({}) /\ {} \in SUBSET Copies
  BY FS_EmptySet
<1>3. Adds({}) = 0 /\ Adds({c}) = c.m + Adds({c} \ {c})
  BY <1>1, <1>2, AddsTakes
<1>4. c.m \in Nat
  BY MarkValuesAssumption DEF Copies
<1>5. QED
  BY <1>1, <1>3, <1>4

(* Rows that all carry the same marks. *)
LEMMA AddsSame ==
  ASSUME NEW S \in SUBSET Copies, IsFiniteSet(S), NEW m \in Nat, \A c \in S : c.m = m
  PROVE  Adds(S) = m * Cardinality(S)
<1> DEFINE Bad == {k \in Nat : \E s \in SUBSET S : Cardinality(s) = k /\ Adds(s) # m * k}
<1>0. \A s \in SUBSET S : /\ IsFiniteSet(s) /\ Cardinality(s) \in Nat /\ s \in SUBSET Copies
                          /\ s = {} <=> Cardinality(s) = 0
                          /\ \A x \in s : s \ {x} \in SUBSET S /\ Cardinality(s \ {x}) = Cardinality(s) - 1
  BY PartSize
<1>1. Bad = {}
  <2> SUFFICES ASSUME Bad # {} PROVE FALSE
    OBVIOUS
  <2>1. PICK k \in Bad : \A j \in Bad : k <= j
    BY LeastNumber
  <2>2. PICK s \in SUBSET S : Cardinality(s) = k /\ Adds(s) # m * k
    BY <2>1
  <2>3. k \in Nat /\ IsFiniteSet(s) /\ s \in SUBSET Copies
    BY <1>0, <2>1
  <2>4. CASE k = 0
    <3>1. s = {} /\ m * 0 = 0
      BY <1>0, <2>2, <2>4
    <3>2. QED
      BY <2>2, <2>3, <2>4, <3>1, AddsTakes
  <2>5. CASE k # 0
    <3>1. PICK c \in s : TRUE
      BY <1>0, <2>2, <2>5
    <3>2. s \ {c} \in SUBSET S /\ Cardinality(s \ {c}) = k - 1 /\ k - 1 \in Nat /\ ~ (k <= k - 1)
      BY <1>0, <2>2, <2>3, <2>5
    <3>3. k - 1 \notin Bad
      <4> HIDE DEF Bad
      <4>1. QED
        BY <2>1, <3>2
    <3>4. Adds(s \ {c}) = m * (k - 1)
      BY <3>2, <3>3
    <3>5. Adds(s) = c.m + Adds(s \ {c}) /\ c.m = m
      BY <2>3, AddsTakes
    <3>6. m + m * (k - 1) = m * k
      BY <2>3
    <3>7. QED
      BY <2>2, <3>4, <3>5, <3>6
  <2>6. QED
    BY <2>4, <2>5
<1>2. Cardinality(S) \in Nat /\ S \in SUBSET S
  BY <1>0
<1>3. QED
  BY <1>1, <1>2

(* New marks for all the rows of an exam: as many rows as before. *)
NewMarks(c, m) == [c EXCEPT !.m = m]
Remarked(S, m) == {NewMarks(c, m) : c \in S}

LEMMA AddsRemarked ==
  ASSUME NEW S \in SUBSET Copies, IsFiniteSet(S), NEW m \in MarkValues,
         \A x, y \in S : x.e = y.e /\ x.n = y.n => x = y
  PROVE  /\ Remarked(S, m) \in SUBSET Copies /\ IsFiniteSet(Remarked(S, m))
         /\ Adds(Remarked(S, m)) = m * Cardinality(S)
<1>0. \A c \in S : NewMarks(c, m) = [e |-> c.e, n |-> c.n, m |-> m]
  BY DEF Copies, NewMarks
<1>1. Remarked(S, m) \in SUBSET Copies /\ \A c \in Remarked(S, m) : c.m = m
  BY <1>0 DEF Copies, Remarked
<1>2. PICK f : f = [c \in S |-> NewMarks(c, m)]
  OBVIOUS
<1>3. f \in Bijection(S, Remarked(S, m))
  <2>1. f \in [S -> Remarked(S, m)]
    BY <1>2 DEF Remarked
  <2>2. \A x, y \in S : f[x] = f[y] => x = y
    <3>1. ASSUME NEW x \in S, NEW y \in S, f[x] = f[y] PROVE x = y
      <4>1. f[x] = [e |-> x.e, n |-> x.n, m |-> m] /\ f[y] = [e |-> y.e, n |-> y.n, m |-> m]
        BY <1>0, <1>2
      <4>2. PICK z : z = f[x] /\ z = f[y]
        BY <3>1
      <4>3. z.e = x.e /\ z.n = x.n
        BY <4>1, <4>2
      <4>4. z.e = y.e /\ z.n = y.n
        BY <4>1, <4>2
      <4>5. QED
        BY <4>3, <4>4
    <3>2. QED
      BY <3>1
  <2>3. \A z \in Remarked(S, m) : \E x \in S : f[x] = z
    BY <1>2 DEF Remarked
  <2>4. QED
    BY <2>1, <2>2, <2>3 DEF Bijection, Injection, Surjection, IsInjective
<1>4. IsFiniteSet(Remarked(S, m)) /\ Cardinality(Remarked(S, m)) = Cardinality(S)
  BY <1>3, FS_Bijection DEF ExistsBijection
<1>5. m \in Nat
  BY MarkValuesAssumption
<1>6. QED
  BY <1>1, <1>4, <1>5, AddsSame

---------------------------------------------------------------------------
(* Questions: what a request holds                                         *)

ItemWorks ==
  [op : {"none", "marks", "delete", "add", "remove"},
   pc : {"idle", "sync", "commit"}, m : MarkValues \union {0}, locks : BOOLEAN,
   adds : SUBSET Copies, drops : SUBSET Copies, marks : SUBSET Copies,
   sums : [Papers -> Nat \union {KeepTotal}],
   met : SUBSET {"rows", "add", "delete", "turn", "answer"}]

(* What each kind of request may touch. *)
ItemShape(w) ==
  /\ w.locks => w.m \in MarkValues
  /\ w.pc = "sync" => w.op = "marks"
  /\ w.pc = "commit" => w.op \in Moves
  /\ w.op = "marks" => w.m \in MarkValues
  /\ w.op \in {"marks", "delete", "remove"} => w.adds = {}
  /\ w.op \in {"marks", "add"} => w.drops = {}
  /\ w.op \in {"add", "delete", "remove"} => w.marks = {}
  /\ \A x, y \in w.adds : x = y

(* What it writes is what follows from the rows and the totals as they are.*)
Fits(w) ==
  \/ /\ w.op = "marks"
     /\ \E E \in SUBSET Papers :
          /\ w.marks = {c \in copies : c.e \in E /\ c.m # w.m}
          /\ \A e \in Papers : w.sums[e] = NewTotal(e, Capped(
               IF e \in E THEN sum[e] - Adds(On(e)) + w.m * Cardinality(On(e)) ELSE sum[e]))
  \/ /\ w.op = "delete"
     /\ w.drops = copies
     /\ \A e \in Papers : w.sums[e] = NewTotal(e, Capped(sum[e] - Adds(On(e))))
  \/ /\ w.op = "add"
     /\ \E x \in Copies :
          /\ On(x.e) = {} /\ w.adds = {x}
          /\ \A e \in Papers : w.sums[e] = IF e = x.e THEN NewTotal(e, Others + x.m) ELSE KeepTotal
  \/ /\ w.op = "remove"
     /\ \E x \in copies :
          /\ w.drops = {x}
          /\ \A e \in Papers : w.sums[e] = IF e = x.e THEN NewTotal(e, Capped(sum[e] - x.m)) ELSE KeepTotal

Touches(w) == w.adds \union w.drops \union w.marks

(* What a request has read still holds, unless it has met what changes it. *)
ItemSound(w) == w.pc = "commit" =>
  /\ "turn" \notin w.met => \A c \in Touches(w) : c.e \in editable
  /\ w.op = "delete" /\ w.met \intersect {"add", "answer"} = {} =>
       answered = {} /\ \A c \in copies : SameRow(c, w.drops)
  /\ w.op = "add" /\ "delete" \notin w.met => InBank
  /\ w.met \intersect Moved = {} => Fits(w)

(* No two rows, there or about to be, have one number on one exam. *)
RowsOwn ==
  /\ \A x, y \in copies : x.e = y.e /\ x.n = y.n => x = y
  /\ \A r \in QuestionReqs : \A x \in itemWork[r].adds : ~ SameRow(x, copies)
  /\ \A r, q \in QuestionReqs : r # q => \A x \in itemWork[r].adds : ~ SameRow(x, itemWork[q].adds)

RowsTyped ==
  /\ item \in [status : {"none", "usable", "archived", "gone"}, marks : MarkValues \union {0}]
  /\ InBank => item.marks \in MarkValues
  /\ editable \in SUBSET Papers /\ answered \in SUBSET Papers
  /\ copies \in SUBSET Copies /\ IsFiniteSet(copies)
  /\ sum \in [Papers -> Nat]

ItemInv ==
  /\ RowsTyped
  /\ itemWork \in [QuestionReqs -> ItemWorks]
  /\ RowsOwn
  /\ \A r \in QuestionReqs : ItemShape(itemWork[r]) /\ ItemSound(itemWork[r])

LEMMA NoItemWorkSound ==
  NoItemWork \in ItemWorks /\ ItemShape(NoItemWork) /\ NoItemWork.pc = "idle" /\ NoItemWork.adds = {}
BY DEF NoItemWork, NoTotals, ItemWorks, ItemShape

LEMMA ItemsBegin == QuestionInit => ItemInv
<1> SUFFICES ASSUME QuestionInit PROVE ItemInv
  OBVIOUS
<1>1. RowsTyped
  BY FS_EmptySet, MarkValuesAssumption DEF QuestionInit, RowsTyped, InBank, Copies
<1>2. itemWork \in [QuestionReqs -> ItemWorks] /\ \A r \in QuestionReqs : itemWork[r] = NoItemWork
  BY NoItemWorkSound DEF QuestionInit
<1>3. RowsOwn
  BY <1>2, NoItemWorkSound DEF QuestionInit, RowsOwn
<1>4. \A r \in QuestionReqs : ItemShape(itemWork[r]) /\ ItemSound(itemWork[r])
  BY <1>2, NoItemWorkSound DEF ItemSound
<1>5. QED
  BY <1>1, <1>2, <1>3, <1>4 DEF ItemInv

(* What somebody else does leaves sound what a request that is told of it  *)
(* holds: it keeps the rows, or is of the kind the request now has met.    *)
Harmless(kinds) ==
  /\ editable' = editable \/ "turn" \in kinds
  /\ answered' = answered \/ "answer" \in kinds
  /\ (\A c \in copies' : SameRow(c, copies)) \/ "add" \in kinds
  /\ (InBank => InBank') \/ "delete" \in kinds
  /\ (copies' = copies /\ sum' = sum) \/ kinds \intersect Moved # {}

LEMMA FitsStays ==
  ASSUME NEW v, Fits(v), copies' = copies, sum' = sum
  PROVE  Fits(v)'
BY DEF Fits, On, NewTotal

LEMMA ItemSoundStays ==
  ASSUME NEW w, NEW v, NEW kinds, ItemSound(w), Harmless(kinds),
         v.pc = w.pc, v.op = w.op, v.m = w.m, v.adds = w.adds, v.drops = w.drops, v.marks = w.marks,
         v.sums = w.sums, v.met = w.met \union kinds
  PROVE  ItemSound(v)'
<1> SUFFICES ASSUME v.pc = "commit"
             PROVE  /\ "turn" \notin v.met => \A c \in Touches(v) : c.e \in editable'
                    /\ v.op = "delete" /\ v.met \intersect {"add", "answer"} = {} =>
                         answered' = {} /\ \A c \in copies' : SameRow(c, v.drops)
                    /\ v.op = "add" /\ "delete" \notin v.met => InBank'
                    /\ v.met \intersect Moved = {} => Fits(v)'
  BY DEF ItemSound, Touches
<1>1. "turn" \notin v.met => \A c \in Touches(v) : c.e \in editable'
  BY DEF ItemSound, Harmless, Touches
<1>2. ASSUME v.op = "delete", v.met \intersect {"add", "answer"} = {}
      PROVE  answered' = {} /\ \A c \in copies' : SameRow(c, v.drops)
  <2>1. answered = {} /\ \A c \in copies : SameRow(c, v.drops)
    BY <1>2 DEF ItemSound
  <2>2. answered' = answered /\ \A c \in copies' : SameRow(c, copies)
    BY <1>2 DEF Harmless
  <2>3. QED
    BY <2>1, <2>2 DEF SameRow
<1>3. v.op = "add" /\ "delete" \notin v.met => InBank'
  BY DEF ItemSound, Harmless
<1>4. ASSUME v.met \intersect Moved = {} PROVE Fits(v)'
  <2>1. w.met \intersect Moved = {} /\ copies' = copies /\ sum' = sum
    BY <1>4 DEF Harmless
  <2>2. Fits(w)
    BY <2>1 DEF ItemSound
  <2>3. Fits(v)
    BY <2>2 DEF Fits
  <2>4. QED
    BY <2>1, <2>3, FitsStays
<1>5. QED
  BY <1>1, <1>2, <1>3, <1>4

(* The others are told. *)
LEMMA ItemsMeet ==
  ASSUME NEW v \in ItemWorks, NEW kinds \in SUBSET {"rows", "add", "delete", "turn", "answer"}
  PROVE  LET u == [v EXCEPT !.met = @ \union kinds] IN
         /\ u \in ItemWorks
         /\ u.pc = v.pc /\ u.op = v.op /\ u.m = v.m /\ u.locks = v.locks /\ u.adds = v.adds
         /\ u.drops = v.drops /\ u.marks = v.marks /\ u.sums = v.sums /\ u.met = v.met \union kinds
<1>1. PICK u : u = [v EXCEPT !.met = @ \union kinds]
  OBVIOUS
<1>2. u = [op |-> v.op, pc |-> v.pc, m |-> v.m, locks |-> v.locks, adds |-> v.adds, drops |-> v.drops,
           marks |-> v.marks, sums |-> v.sums, met |-> v.met \union kinds]
  BY <1>1 DEF ItemWorks
<1>3. u \in ItemWorks
  BY <1>2 DEF ItemWorks
<1>4. QED
  BY <1>1, <1>2, <1>3

---------------------------------------------------------------------------
(* Questions: reads and decisions                                          *)

(* What QuestionsKept says of one step. *)
QuestionsHold ==
  /\ NoDangling => \/ NoDangling'
                   \/ RacedItem({"add"}, {"delete"})
                   \/ RacedItem({"delete"}, {"add", "turn", "answer"})
  /\ Balanced => Balanced' \/ RacedItem(Moves, Moved)
  /\ \A e \in Papers \ editable : On(e)' # On(e) => RacedItem(Moves, {"turn"})

LEMMA QuietHolds ==
  ASSUME UNCHANGED <<item, copies, sum, answered>>
  PROVE  QuestionsHold
BY DEF QuestionsHold, NoDangling, Balanced, On, InBank

ItemRecord(a, b, c, d, e, f, g, h, i) ==
  [op |-> a, pc |-> b, m |-> c, locks |-> d, adds |-> e, drops |-> f, marks |-> g, sums |-> h, met |-> i]

LEMMA NoItemRecord == NoItemWork = ItemRecord("none", "idle", 0, FALSE, {}, {}, {}, NoTotals, {})
BY DEF NoItemWork, ItemRecord

(* The records that the requests write, field by field. *)
LEMMA MarksWritten ==
  ASSUME NEW a, NEW b, NEW c, NEW d
  PROVE  [NoItemWork EXCEPT !.op = a, !.pc = b, !.m = c, !.locks = d] =
           ItemRecord(a, b, c, d, {}, {}, {}, NoTotals, {})
<1>1. PICK o, p, m, l, x, y, z, t, k : /\ o = "none" /\ p = "idle" /\ m = 0 /\ l = FALSE
                                       /\ x = {} /\ y = {} /\ z = {} /\ t = NoTotals /\ k = {}
  OBVIOUS
<1>2. PICK w : w = ItemRecord(o, p, m, l, x, y, z, t, k) /\ w = NoItemWork
  BY <1>1, NoItemRecord
<1>3. PICK w1 : w1 = [w EXCEPT !.op = a]
  OBVIOUS
<1>4. w1 = ItemRecord(a, p, m, l, x, y, z, t, k)
  BY <1>2, <1>3 DEF ItemRecord
<1>5. PICK w2 : w2 = [w1 EXCEPT !.pc = b]
  OBVIOUS
<1>6. w2 = ItemRecord(a, b, m, l, x, y, z, t, k)
  BY <1>4, <1>5 DEF ItemRecord
<1>7. PICK w3 : w3 = [w2 EXCEPT !.m = c]
  OBVIOUS
<1>8. w3 = ItemRecord(a, b, c, l, x, y, z, t, k)
  BY <1>6, <1>7 DEF ItemRecord
<1>9. [w3 EXCEPT !.locks = d] = ItemRecord(a, b, c, d, x, y, z, t, k)
  BY <1>8 DEF ItemRecord
<1>10. QED
  BY <1>1, <1>2, <1>3, <1>5, <1>7, <1>9

LEMMA DropsWritten ==
  ASSUME NEW a, NEW b, NEW c, NEW d
  PROVE  [NoItemWork EXCEPT !.op = a, !.pc = b, !.drops = c, !.sums = d] =
           ItemRecord(a, b, 0, FALSE, {}, c, {}, d, {})
<1>1. PICK o, p, m, l, x, y, z, t, k : /\ o = "none" /\ p = "idle" /\ m = 0 /\ l = FALSE
                                       /\ x = {} /\ y = {} /\ z = {} /\ t = NoTotals /\ k = {}
  OBVIOUS
<1>2. PICK w : w = ItemRecord(o, p, m, l, x, y, z, t, k) /\ w = NoItemWork
  BY <1>1, NoItemRecord
<1>3. PICK w1 : w1 = [w EXCEPT !.op = a]
  OBVIOUS
<1>4. w1 = ItemRecord(a, p, m, l, x, y, z, t, k)
  BY <1>2, <1>3 DEF ItemRecord
<1>5. PICK w2 : w2 = [w1 EXCEPT !.pc = b]
  OBVIOUS
<1>6. w2 = ItemRecord(a, b, m, l, x, y, z, t, k)
  BY <1>4, <1>5 DEF ItemRecord
<1>7. PICK w3 : w3 = [w2 EXCEPT !.drops = c]
  OBVIOUS
<1>8. w3 = ItemRecord(a, b, m, l, x, c, z, t, k)
  BY <1>6, <1>7 DEF ItemRecord
<1>9. [w3 EXCEPT !.sums = d] = ItemRecord(a, b, m, l, x, c, z, d, k)
  BY <1>8 DEF ItemRecord
<1>10. QED
  BY <1>1, <1>2, <1>3, <1>5, <1>7, <1>9

LEMMA AddsWritten ==
  ASSUME NEW a, NEW b, NEW c, NEW d
  PROVE  [NoItemWork EXCEPT !.op = a, !.pc = b, !.adds = c, !.sums = d] =
           ItemRecord(a, b, 0, FALSE, c, {}, {}, d, {})
<1>1. PICK o, p, m, l, x, y, z, t, k : /\ o = "none" /\ p = "idle" /\ m = 0 /\ l = FALSE
                                       /\ x = {} /\ y = {} /\ z = {} /\ t = NoTotals /\ k = {}
  OBVIOUS
<1>2. PICK w : w = ItemRecord(o, p, m, l, x, y, z, t, k) /\ w = NoItemWork
  BY <1>1, NoItemRecord
<1>3. PICK w1 : w1 = [w EXCEPT !.op = a]
  OBVIOUS
<1>4. w1 = ItemRecord(a, p, m, l, x, y, z, t, k)
  BY <1>2, <1>3 DEF ItemRecord
<1>5. PICK w2 : w2 = [w1 EXCEPT !.pc = b]
  OBVIOUS
<1>6. w2 = ItemRecord(a, b, m, l, x, y, z, t, k)
  BY <1>4, <1>5 DEF ItemRecord
<1>7. PICK w3 : w3 = [w2 EXCEPT !.adds = c]
  OBVIOUS
<1>8. w3 = ItemRecord(a, b, m, l, c, y, z, t, k)
  BY <1>6, <1>7 DEF ItemRecord
<1>9. [w3 EXCEPT !.sums = d] = ItemRecord(a, b, m, l, c, y, z, d, k)
  BY <1>8 DEF ItemRecord
<1>10. QED
  BY <1>1, <1>2, <1>3, <1>5, <1>7, <1>9

LEMMA SyncWritten ==
  ASSUME NEW w \in ItemWorks, NEW d, NEW f
  PROVE  [w EXCEPT !.pc = "commit", !.met = {}, !.marks = d, !.sums = f] =
           ItemRecord(w.op, "commit", w.m, w.locks, w.adds, w.drops, d, f, {})
<1>0. PICK b, c : b = "commit" /\ c = {}
  OBVIOUS
<1>1. PICK o, p, m, l, x, y, z, t, k : /\ o = w.op /\ p = w.pc /\ m = w.m /\ l = w.locks /\ x = w.adds
                                       /\ y = w.drops /\ z = w.marks /\ t = w.sums /\ k = w.met
  OBVIOUS
<1>2. w = ItemRecord(o, p, m, l, x, y, z, t, k)
  BY <1>1 DEF ItemWorks, ItemRecord
<1>3. PICK w1 : w1 = [w EXCEPT !.pc = b]
  OBVIOUS
<1>4. w1 = ItemRecord(o, b, m, l, x, y, z, t, k)
  BY <1>2, <1>3 DEF ItemRecord
<1>5. PICK w2 : w2 = [w1 EXCEPT !.met = c]
  OBVIOUS
<1>6. w2 = ItemRecord(o, b, m, l, x, y, z, t, c)
  BY <1>4, <1>5 DEF ItemRecord
<1>7. PICK w3 : w3 = [w2 EXCEPT !.marks = d]
  OBVIOUS
<1>8. w3 = ItemRecord(o, b, m, l, x, y, d, t, c)
  BY <1>6, <1>7 DEF ItemRecord
<1>9. [w3 EXCEPT !.sums = f] = ItemRecord(o, b, m, l, x, y, d, f, c)
  BY <1>8 DEF ItemRecord
<1>10. QED
  BY <1>0, <1>1, <1>3, <1>5, <1>7, <1>9

(* A request that only reads leaves the others as they were. *)
LEMMA ItemLoaded ==
  ASSUME ItemInv, NEW r \in QuestionReqs, NEW w \in ItemWorks, itemWork' = [itemWork EXCEPT ![r] = w],
         UNCHANGED <<item, editable, copies, sum, answered>>, ItemShape(w), ItemSound(w),
         \A x \in w.adds : ~ SameRow(x, copies),
         \A q \in QuestionReqs \ {r} : \A x \in w.adds : ~ SameRow(x, itemWork[q].adds)
  PROVE  ItemInv' /\ QuestionsHold
<1>1. itemWork \in [QuestionReqs -> ItemWorks]
  BY DEF ItemInv
<1>2. itemWork' \in [QuestionReqs -> ItemWorks] /\ itemWork'[r] = w
        /\ \A q \in QuestionReqs \ {r} : itemWork'[q] = itemWork[q]
  BY <1>1
<1>3. RowsTyped'
  BY DEF ItemInv, RowsTyped, InBank
<1>4. RowsOwn'
  <2>1. \A q \in QuestionReqs : \A x \in itemWork'[q].adds : ~ SameRow(x, copies)
    BY <1>2 DEF ItemInv, RowsOwn
  <2>2. \A q \in QuestionReqs \ {r} : \A x \in itemWork[q].adds : ~ SameRow(x, w.adds)
    BY DEF SameRow
  <2>3. ASSUME NEW p \in QuestionReqs, NEW q \in QuestionReqs, p # q, NEW x \in itemWork'[p].adds
        PROVE  ~ SameRow(x, itemWork'[q].adds)
    <3>1. CASE p = r
      BY <1>2, <2>3, <3>1
    <3>2. CASE q = r
      BY <1>2, <2>2, <2>3, <3>2
    <3>3. CASE p # r /\ q # r
      BY <1>2, <2>3, <3>3 DEF ItemInv, RowsOwn
    <3>4. QED
      BY <3>1, <3>2, <3>3
  <2>4. QED
    BY <2>1, <2>3 DEF ItemInv, RowsOwn, SameRow
<1>5. ASSUME NEW q \in QuestionReqs PROVE ItemShape(itemWork[q])' /\ ItemSound(itemWork[q])'
  <2>1. PICK v : v = itemWork'[q]
    OBVIOUS
  <2>2. ItemShape(v) /\ ItemSound(v)
    BY <1>2, <2>1 DEF ItemInv
  <2>3. ItemSound(v)'
    <3>1. v.met \intersect Moved = {} /\ v.pc = "commit" => Fits(v)'
      BY <2>2, FitsStays DEF ItemSound
    <3>2. QED
      BY <2>2, <3>1 DEF ItemSound, InBank
  <2>4. QED
    BY <2>1, <2>2, <2>3 DEF ItemShape
<1>6. QED
  BY <1>2, <1>3, <1>4, <1>5, QuietHolds DEF ItemInv

LEMMA OnTyped ==
  ASSUME RowsTyped, NEW e
  PROVE  /\ On(e) \in SUBSET Copies /\ IsFiniteSet(On(e))
         /\ Adds(On(e)) \in Nat /\ Cardinality(On(e)) \in Nat
<1>1. On(e) \in SUBSET Copies /\ IsFiniteSet(On(e))
  BY FS_Subset DEF RowsTyped, On
<1>2. Adds(On(e)) \in Nat /\ Cardinality(On(e)) \in Nat
  BY <1>1, AddsTakes, FS_CardinalityType
<1>3. QED
  BY <1>1, <1>2

LEMMA TotalTyped ==
  ASSUME NEW e, NEW n \in Int
  PROVE  /\ Capped(n) \in Nat /\ (n \in Nat => Capped(n) = n)
         /\ NewTotal(e, Capped(n)) \in Nat \union {KeepTotal}
         /\ n \in Nat => NewTotal(e, n) \in Nat \union {KeepTotal}
BY DEF Capped, NewTotal, KeepTotal

LEMMA AskMarksKeeps ==
  ASSUME ItemInv, NEW r \in QuestionReqs, NEW m \in MarkValues, AskMarks(r, m)
  PROVE  ItemInv' /\ QuestionsHold
<1>1. PICK b \in BOOLEAN : b = (m # item.marks)
  OBVIOUS
<1>2. PICK w : w = ItemRecord("marks", "sync", m, b, {}, {}, {}, NoTotals, {})
  OBVIOUS
<1>3. itemWork' = [itemWork EXCEPT ![r] = w] /\ UNCHANGED <<item, editable, copies, sum, answered>>
  <2>1. w = [NoItemWork EXCEPT !.op = "marks", !.pc = "sync", !.m = m, !.locks = b]
    BY <1>2, MarksWritten
  <2>2. QED
    BY <1>1, <2>1 DEF AskMarks, Loads
<1>4. w \in ItemWorks /\ w.pc = "sync" /\ w.op = "marks" /\ w.m = m /\ w.adds = {} /\ w.drops = {}
  BY <1>2 DEF ItemRecord, ItemWorks, NoTotals
<1>5. ItemShape(w) /\ ItemSound(w)
  BY <1>4 DEF ItemShape, ItemSound
<1>6. QED
  BY <1>3, <1>4, <1>5, ItemLoaded

LEMMA AskDeleteKeeps ==
  ASSUME ItemInv, NEW r \in QuestionReqs, AskDelete(r)
  PROVE  ItemInv' /\ QuestionsHold
<1>1. PICK s : s = [e \in Papers |-> NewTotal(e, Capped(sum[e] - Adds(On(e))))]
  OBVIOUS
<1>2. PICK w : w = ItemRecord("delete", "commit", 0, FALSE, {}, copies, {}, s, {})
  OBVIOUS
<1>3. itemWork' = [itemWork EXCEPT ![r] = w] /\ UNCHANGED <<item, editable, copies, sum, answered>>
  <2>1. w = [NoItemWork EXCEPT !.op = "delete", !.pc = "commit", !.drops = copies, !.sums = s]
    BY <1>2, DropsWritten
  <2>2. QED
    BY <1>1, <2>1 DEF AskDelete, Loads
<1>4. RowsTyped
  BY DEF ItemInv
<1>5. s \in [Papers -> Nat \union {KeepTotal}]
  <2>1. \A e \in Papers : sum[e] - Adds(On(e)) \in Int
    BY <1>4, OnTyped DEF RowsTyped
  <2>2. QED
    BY <1>1, <2>1, TotalTyped
<1>6. /\ w.op = "delete" /\ w.pc = "commit" /\ w.m = 0 /\ w.locks = FALSE /\ w.adds = {}
      /\ w.drops = copies /\ w.marks = {} /\ w.sums = s /\ w.met = {}
  BY <1>2 DEF ItemRecord
<1>7. w \in ItemWorks
  BY <1>2, <1>4, <1>5 DEF ItemRecord, ItemWorks, RowsTyped
<1>8. ItemShape(w)
  BY <1>6 DEF ItemShape, Moves
<1>9. ItemSound(w)
  <2>1. \A c \in Touches(w) : c.e \in editable
    BY <1>6 DEF AskDelete, MayDelete, Touches
  <2>2. answered = {} /\ \A c \in copies : SameRow(c, w.drops)
    BY <1>6 DEF AskDelete, MayDelete, SameRow
  <2>3. Fits(w)
    BY <1>1, <1>6 DEF Fits
  <2>4. QED
    BY <1>6, <2>1, <2>2, <2>3 DEF ItemSound
<1>10. QED
  BY <1>3, <1>6, <1>7, <1>8, <1>9, ItemLoaded

(* A new row takes a number that nothing has or names. *)
LEMMA NextRowFree ==
  ASSUME ItemInv, NEW e \in Papers
  PROVE  \A q \in QuestionReqs : \A x \in itemWork[q].adds : x.e = e => x.n # NextRow(e)
<1> DEFINE used == {c.n : c \in {x \in UNION {itemWork[q].adds \union itemWork[q].drops \union itemWork[q].marks :
                                         q \in QuestionReqs} : x.e = e}}
           free == {n \in 1..(MaxCopies + 1) : n \notin used}
<1>1. \A q \in QuestionReqs : itemWork[q].adds \union itemWork[q].drops \union itemWork[q].marks \subseteq Copies
  BY DEF ItemInv, ItemWorks
<1>2. \A n \in used : n \in 1..MaxCopies
  BY <1>1 DEF Copies
<1>3. free \subseteq Nat /\ free # {}
  <2>1. MaxCopies + 1 \in free
    BY <1>2, MarkValuesAssumption
  <2>2. QED
    BY <2>1, MarkValuesAssumption
<1>4. NextRow(e) \in free
  <2>1. NextRow(e) = Min(free)
    BY Zenon DEF NextRow
  <2> HIDE DEF free
  <2>2. PICK n \in free : \A k \in free : n <= k
    BY <1>3, LeastNumber
  <2>3. Min(free) \in free
    BY <2>2 DEF Min
  <2>4. QED
    BY <2>1, <2>3
<1>5. NextRow(e) \notin used
  BY <1>4
<1>6. \A q \in QuestionReqs : \A x \in itemWork[q].adds : x.e = e => x.n \in used
  OBVIOUS
<1> HIDE DEF used
<1>7. QED
  BY <1>5, <1>6

LEMMA AskAddKeeps ==
  ASSUME ItemInv, NEW r \in QuestionReqs, NEW e \in Papers, NEW n \in 1..MaxCopies, AskAddCopy(r, e, n)
  PROVE  ItemInv' /\ QuestionsHold
<1>1. PICK x : x = [e |-> e, n |-> n, m |-> item.marks]
  OBVIOUS
<1>2. RowsTyped /\ item.marks \in MarkValues /\ item.marks \in Nat
  BY MarkValuesAssumption DEF ItemInv, RowsTyped, AskAddCopy
<1>3. x \in Copies /\ x.e = e /\ x.n = n /\ x.m = item.marks
  BY <1>1, <1>2 DEF Copies
<1>4. PICK s : s = [NoTotals EXCEPT ![e] = NewTotal(e, Others + item.marks)]
  OBVIOUS
<1>5. PICK w : w = ItemRecord("add", "commit", 0, FALSE, {x}, {}, {}, s, {})
  OBVIOUS
<1>6. itemWork' = [itemWork EXCEPT ![r] = w] /\ UNCHANGED <<item, editable, copies, sum, answered>>
  <2>1. w = [NoItemWork EXCEPT !.op = "add", !.pc = "commit", !.adds = {x}, !.sums = s]
    BY <1>5, AddsWritten
  <2>2. QED
    BY <1>1, <1>4, <2>1 DEF AskAddCopy, Loads
<1>7. /\ s \in [Papers -> Nat \union {KeepTotal}]
      /\ \A o \in Papers : s[o] = IF o = x.e THEN NewTotal(o, Others + x.m) ELSE KeepTotal
  <2>1. NewTotal(e, Others + item.marks) \in Nat \union {KeepTotal}
    BY <1>2, TotalTyped, MarkValuesAssumption
  <2>2. QED
    BY <1>3, <1>4, <2>1 DEF NoTotals
<1>8. /\ w.op = "add" /\ w.pc = "commit" /\ w.m = 0 /\ w.locks = FALSE /\ w.adds = {x}
      /\ w.drops = {} /\ w.marks = {} /\ w.sums = s /\ w.met = {}
  BY <1>5 DEF ItemRecord
<1>9. w \in ItemWorks
  BY <1>3, <1>5, <1>7 DEF ItemRecord, ItemWorks
<1>10. ItemShape(w)
  BY <1>8 DEF ItemShape, Moves
<1>11. ItemSound(w)
  <2>1. \A c \in Touches(w) : c.e \in editable
    BY <1>3, <1>8 DEF AskAddCopy, Touches
  <2>2. Fits(w)
    <3>1. On(x.e) = {}
      BY <1>3 DEF AskAddCopy
    <3>2. QED
      BY <1>3, <1>7, <1>8, <3>1 DEF Fits
  <2>3. InBank
    BY DEF AskAddCopy
  <2>4. QED
    BY <1>8, <2>1, <2>2, <2>3 DEF ItemSound
<1>12. \A y \in w.adds : ~ SameRow(y, copies)
  BY <1>3, <1>8 DEF AskAddCopy, On, SameRow
<1>13. \A q \in QuestionReqs \ {r} : \A y \in w.adds : ~ SameRow(y, itemWork[q].adds)
  BY <1>3, <1>8, NextRowFree DEF AskAddCopy, SameRow
<1>14. QED
  BY <1>6, <1>9, <1>10, <1>11, <1>12, <1>13, ItemLoaded

LEMMA AskRemoveKeeps ==
  ASSUME ItemInv, NEW r \in QuestionReqs, NEW x \in copies, AskRemove(r, x)
  PROVE  ItemInv' /\ QuestionsHold
<1>1. PICK s : s = [NoTotals EXCEPT ![x.e] = NewTotal(x.e, Capped(sum[x.e] - x.m))]
  OBVIOUS
<1>2. PICK w : w = ItemRecord("remove", "commit", 0, FALSE, {}, {x}, {}, s, {})
  OBVIOUS
<1>3. itemWork' = [itemWork EXCEPT ![r] = w] /\ UNCHANGED <<item, editable, copies, sum, answered>>
  <2>1. w = [NoItemWork EXCEPT !.op = "remove", !.pc = "commit", !.drops = {x}, !.sums = s]
    BY <1>2, DropsWritten
  <2>2. QED
    BY <1>1, <2>1 DEF AskRemove, Loads
<1>4. x \in Copies /\ x.e \in Papers /\ sum[x.e] \in Nat /\ x.m \in Nat
  BY MarkValuesAssumption DEF ItemInv, RowsTyped, Copies
<1>5. /\ s \in [Papers -> Nat \union {KeepTotal}]
      /\ \A o \in Papers : s[o] = IF o = x.e THEN NewTotal(o, Capped(sum[o] - x.m)) ELSE KeepTotal
  <2>1. sum[x.e] - x.m \in Int
    BY <1>4
  <2>2. NewTotal(x.e, Capped(sum[x.e] - x.m)) \in Nat \union {KeepTotal}
    BY <2>1, TotalTyped
  <2>3. QED
    BY <1>1, <1>4, <2>2 DEF NoTotals
<1>6. /\ w.op = "remove" /\ w.pc = "commit" /\ w.m = 0 /\ w.locks = FALSE /\ w.adds = {}
      /\ w.drops = {x} /\ w.marks = {} /\ w.sums = s /\ w.met = {}
  BY <1>2 DEF ItemRecord
<1>7. w \in ItemWorks
  BY <1>2, <1>4, <1>5 DEF ItemRecord, ItemWorks
<1>8. ItemShape(w)
  BY <1>6 DEF ItemShape, Moves
<1>9. ItemSound(w)
  <2>1. \A c \in Touches(w) : c.e \in editable
    BY <1>6 DEF AskRemove, Touches
  <2>2. Fits(w)
    BY <1>5, <1>6 DEF Fits
  <2>3. QED
    BY <1>6, <2>1, <2>2 DEF ItemSound
<1>10. QED
  BY <1>3, <1>6, <1>7, <1>8, <1>9, ItemLoaded

LEMMA SyncMarksKeeps ==
  ASSUME ItemInv, NEW r \in QuestionReqs, SyncMarks(r)
  PROVE  ItemInv' /\ QuestionsHold
<1>1. PICK w : w = itemWork[r]
  OBVIOUS
<1>2. /\ w \in ItemWorks /\ ItemShape(w) /\ w.op = "marks" /\ w.adds = {} /\ w.drops = {}
      /\ w.m \in MarkValues /\ w.m \in Nat
  BY <1>1, MarkValuesAssumption DEF ItemInv, SyncMarks, ItemShape
<1>3. RowsTyped
  BY DEF ItemInv
<1> DEFINE follow == {c \in copies : StillDraft(c)}
<1>4. PICK s, k : /\ k = {c \in follow : c.m # w.m}
                  /\ s = [e \in Papers |->
                       LET mine == {c \in follow : c.e = e} IN
                       NewTotal(e, Capped(sum[e] - Adds(mine) + w.m * Cardinality(mine)))]
  OBVIOUS
<1>5. PICK v : v = ItemRecord(w.op, "commit", w.m, w.locks, w.adds, w.drops, k, s, {})
  OBVIOUS
<1>6. itemWork' = [itemWork EXCEPT ![r] = v] /\ UNCHANGED <<item, editable, copies, sum, answered>>
  <2>1. v = [w EXCEPT !.pc = "commit", !.met = {}, !.marks = k, !.sums = s]
    <3>1. w \in ItemWorks
      BY <1>2
    <3>2. [w EXCEPT !.pc = "commit", !.met = {}, !.marks = k, !.sums = s] =
            ItemRecord(w.op, "commit", w.m, w.locks, w.adds, w.drops, k, s, {})
      BY <3>1, SyncWritten
    <3>3. QED
      BY <1>5, <3>2
  <2>2. itemWork' = [itemWork EXCEPT ![r] = [w EXCEPT !.pc = "commit", !.met = {}, !.marks = k, !.sums = s]]
    BY <1>1, <1>4 DEF SyncMarks
  <2>3. UNCHANGED <<item, editable, copies, sum, answered>>
    BY DEF SyncMarks
  <2>4. QED
    BY <2>1, <2>2, <2>3
<1>7. \A e \in Papers : s[e] = NewTotal(e, Capped(
        IF e \in editable THEN sum[e] - Adds(On(e)) + w.m * Cardinality(On(e)) ELSE sum[e]))
  <2>1. ASSUME NEW e \in Papers
        PROVE  s[e] = NewTotal(e, Capped(
                 IF e \in editable THEN sum[e] - Adds(On(e)) + w.m * Cardinality(On(e)) ELSE sum[e]))
    <3>1. PICK mine : mine = {c \in follow : c.e = e}
      OBVIOUS
    <3>2. s[e] = NewTotal(e, Capped(sum[e] - Adds(mine) + w.m * Cardinality(mine)))
      BY <1>4, <3>1
    <3>3. CASE e \in editable
      <4>1. mine = On(e)
        BY <3>1, <3>3 DEF On, StillDraft
      <4>2. QED
        BY <3>2, <3>3, <4>1
    <3>4. CASE e \notin editable
      <4>1. mine = {} /\ IsFiniteSet({}) /\ {} \in SUBSET Copies
        BY <3>1, <3>4, FS_EmptySet DEF StillDraft
      <4>2. Adds(mine) = 0 /\ Cardinality(mine) = 0
        BY <4>1, AddsTakes, FS_EmptySet
      <4>3. sum[e] - 0 + w.m * 0 = sum[e]
        BY <1>2, <1>3 DEF RowsTyped
      <4>4. QED
        BY <3>2, <3>4, <4>2, <4>3
    <3>5. QED
      BY <3>3, <3>4
  <2>2. QED
    BY <2>1
<1>8. s \in [Papers -> Nat \union {KeepTotal}]
  <2>1. \A e \in Papers : /\ sum[e] \in Int
                          /\ sum[e] - Adds(On(e)) + w.m * Cardinality(On(e)) \in Int
    <3>1. ASSUME NEW e \in Papers
          PROVE  sum[e] \in Int /\ sum[e] - Adds(On(e)) + w.m * Cardinality(On(e)) \in Int
      <4>1. sum[e] \in Nat /\ Adds(On(e)) \in Nat /\ Cardinality(On(e)) \in Nat
        BY <1>3, OnTyped DEF RowsTyped
      <4>2. QED
        BY <1>2, <4>1
    <3>2. QED
      BY <3>1
  <2>2. \A e \in Papers : s[e] \in Nat \union {KeepTotal}
    BY <1>7, <2>1, TotalTyped
  <2>3. s = [e \in Papers |-> s[e]]
    BY <1>4
  <2>4. QED
    BY <2>2, <2>3
<1>9. k = {c \in copies : c.e \in editable /\ c.m # w.m}
  BY <1>4 DEF StillDraft
<1> HIDE DEF follow
<1>10. /\ v.op = "marks" /\ v.pc = "commit" /\ v.m = w.m /\ v.locks = w.locks /\ v.adds = {}
       /\ v.drops = {} /\ v.marks = k /\ v.sums = s /\ v.met = {}
  BY <1>2, <1>5 DEF ItemRecord
<1>11. v \in ItemWorks
  <2>1. k \in SUBSET Copies
    BY <1>3, <1>9 DEF RowsTyped
  <2>2. QED
    BY <1>2, <1>5, <1>8, <2>1 DEF ItemRecord, ItemWorks
<1>12. ItemShape(v)
  BY <1>2, <1>10 DEF ItemShape, Moves
<1>13. ItemSound(v)
  <2>1. \A c \in Touches(v) : c.e \in editable
    BY <1>9, <1>10 DEF Touches
  <2>2. Fits(v)
    BY <1>3, <1>7, <1>9, <1>10 DEF Fits, RowsTyped
  <2>3. QED
    BY <1>10, <2>1, <2>2 DEF ItemSound
<1>14. QED
  BY <1>6, <1>10, <1>11, <1>12, <1>13, ItemLoaded

LEMMA DropItemKeeps ==
  ASSUME ItemInv, NEW r \in QuestionReqs, DropItem(r)
  PROVE  ItemInv' /\ QuestionsHold
<1>1. ItemSound(NoItemWork)
  BY NoItemWorkSound DEF ItemSound
<1>2. itemWork' = [itemWork EXCEPT ![r] = NoItemWork] /\ UNCHANGED <<item, editable, copies, sum, answered>>
  BY DEF DropItem
<1>3. QED
  BY <1>1, <1>2, NoItemWorkSound, ItemLoaded

---------------------------------------------------------------------------
(* Questions: what changes under the requests                              *)

LEMMA ItemUntold ==
  ASSUME ItemInv, itemWork' = itemWork, copies' = copies, RowsTyped', Harmless({})
  PROVE  ItemInv'
<1>1. RowsOwn'
  BY DEF ItemInv, RowsOwn, SameRow
<1>2. ASSUME NEW q \in QuestionReqs PROVE ItemShape(itemWork[q])' /\ ItemSound(itemWork[q])'
  <2>1. PICK v : v = itemWork'[q]
    OBVIOUS
  <2>2. ItemShape(v) /\ ItemSound(v) /\ v.met = v.met \union {}
    BY <2>1 DEF ItemInv
  <2>3. ItemSound(v)'
    BY <2>2, ItemSoundStays
  <2>4. QED
    BY <2>1, <2>2, <2>3 DEF ItemShape
<1>3. QED
  BY <1>1, <1>2 DEF ItemInv

(* The rows that are left have numbers of their own. *)
LeavesOwn(done) ==
  /\ \A x, y \in copies' : x.e = y.e /\ x.n = y.n => x = y
  /\ \A q \in QuestionReqs \ done : \A x \in itemWork[q].adds : ~ SameRow(x, copies')

(* The requests that go on are told what was done. *)
LEMMA ItemsTold ==
  ASSUME ItemInv, NEW done \in SUBSET QuestionReqs, NEW op,
         Mark(op) \in SUBSET {"rows", "add", "delete", "turn", "answer"},
         itemWork' = [q \in QuestionReqs |-> IF q \in done THEN NoItemWork ELSE Meets(op)[q]],
         RowsTyped', Harmless(Mark(op)), LeavesOwn(done)
  PROVE  ItemInv'
<1> DEFINE told(v) == [v EXCEPT !.met = @ \union Mark(op)]
<1>1. ASSUME NEW q \in QuestionReqs
      PROVE  /\ itemWork'[q] \in ItemWorks
             /\ (itemWork'[q].adds = itemWork[q].adds /\ q \notin done) \/ itemWork'[q].adds = {}
             /\ ItemShape(itemWork[q])' /\ ItemSound(itemWork[q])'
  <2>1. PICK u, v : u = itemWork[q] /\ v = itemWork'[q]
    OBVIOUS
  <2>2. u \in ItemWorks /\ ItemShape(u) /\ ItemSound(u)
    BY <2>1 DEF ItemInv
  <2>3. CASE v = NoItemWork
    <3>1. ItemSound(v)'
      BY <2>3, NoItemWorkSound DEF ItemSound
    <3>2. QED
      BY <2>1, <2>3, <3>1, NoItemWorkSound DEF ItemShape
  <2>4. CASE q \notin done /\ v = u /\ u.pc = "idle"
    <3>1. ItemSound(v)'
      BY <2>4 DEF ItemSound
    <3>2. QED
      BY <2>1, <2>2, <2>4, <3>1 DEF ItemShape
  <2>5. CASE q \notin done /\ v = told(u)
    <3>1. /\ v \in ItemWorks
          /\ v.pc = u.pc /\ v.op = u.op /\ v.m = u.m /\ v.locks = u.locks /\ v.adds = u.adds
          /\ v.drops = u.drops /\ v.marks = u.marks /\ v.sums = u.sums /\ v.met = u.met \union Mark(op)
      BY <2>2, <2>5, ItemsMeet
    <3>2. ItemSound(v)'
      BY <2>2, <3>1, ItemSoundStays
    <3>3. ItemShape(v)
      BY <2>2, <3>1 DEF ItemShape
    <3>4. QED
      BY <2>1, <2>5, <3>1, <3>2, <3>3 DEF ItemShape
  <2>6. QED
    BY <2>1, <2>3, <2>4, <2>5 DEF Meets
<1>2. itemWork' \in [QuestionReqs -> ItemWorks]
  BY <1>1
<1>3. RowsOwn'
  <2>1. \A q \in QuestionReqs : \A x \in itemWork'[q].adds : ~ SameRow(x, copies')
    BY <1>1 DEF LeavesOwn
  <2>2. ASSUME NEW p \in QuestionReqs, NEW q \in QuestionReqs, p # q, NEW x \in itemWork'[p].adds
        PROVE  ~ SameRow(x, itemWork'[q].adds)
    <3>1. x \in itemWork[p].adds /\ itemWork'[q].adds \subseteq itemWork[q].adds
      BY <1>1, <2>2
    <3>2. QED
      BY <2>2, <3>1 DEF ItemInv, RowsOwn, SameRow
  <2>3. QED
    BY <2>1, <2>2 DEF LeavesOwn, RowsOwn, SameRow
<1>4. QED
  BY <1>1, <1>2, <1>3 DEF ItemInv

LEMMA CreateItemKeeps ==
  ASSUME ItemInv, NEW m \in MarkValues, CreateItem(m)
  PROVE  ItemInv' /\ QuestionsHold
<1>1. item' = [status |-> "usable", marks |-> m] /\ UNCHANGED <<editable, copies, sum, answered, itemWork>>
  BY DEF CreateItem
<1>2. InBank'
  BY <1>1 DEF InBank
<1>3. RowsTyped'
  BY <1>1 DEF ItemInv, RowsTyped
<1>4. Harmless({})
  BY <1>1, <1>2 DEF Harmless, SameRow
<1>5. QuestionsHold
  BY <1>1, <1>2 DEF QuestionsHold, NoDangling, Balanced, On
<1>6. QED
  BY <1>1, <1>3, <1>4, <1>5, ItemUntold

LEMMA SetStatusKeeps ==
  ASSUME ItemInv, NEW to \in {"usable", "archived"}, SetStatus(to)
  PROVE  ItemInv' /\ QuestionsHold
<1>1. item' = [item EXCEPT !.status = to] /\ UNCHANGED <<editable, copies, sum, answered, itemWork>>
  BY DEF SetStatus
<1>2. item' = [status |-> to, marks |-> item.marks] /\ item.marks \in MarkValues
  BY <1>1 DEF ItemInv, RowsTyped, SetStatus
<1>3. InBank'
  BY <1>2 DEF InBank
<1>4. RowsTyped'
  BY <1>1, <1>2 DEF ItemInv, RowsTyped
<1>5. Harmless({})
  BY <1>1, <1>3 DEF Harmless, SameRow
<1>6. QuestionsHold
  BY <1>1, <1>3 DEF QuestionsHold, NoDangling, Balanced, On
<1>7. QED
  BY <1>1, <1>4, <1>5, <1>6, ItemUntold

LEMMA TurnKeeps ==
  ASSUME ItemInv, NEW e \in Papers, Turn(e)
  PROVE  ItemInv' /\ QuestionsHold
<1>1. /\ editable' = IF e \in editable THEN editable \ {e} ELSE editable \union {e}
      /\ itemWork' = Meets("turn") /\ UNCHANGED <<item, copies, sum, answered>>
  BY DEF Turn
<1>2. RowsTyped'
  BY <1>1 DEF ItemInv, RowsTyped, InBank
<1>3. Mark("turn") = {"turn"}
  BY DEF Mark
<1>4. Harmless({"turn"})
  BY <1>1 DEF Harmless, SameRow, InBank
<1>5. PICK done, op : done = {} /\ op = "turn"
  OBVIOUS
<1>6. itemWork' = [q \in QuestionReqs |-> IF q \in done THEN NoItemWork ELSE Meets(op)[q]]
  BY <1>1, <1>5 DEF Meets
<1>7. ItemInv'
  <2>1. LeavesOwn(done)
    BY <1>1 DEF LeavesOwn, ItemInv, RowsOwn
  <2>2. Harmless(Mark(op)) /\ Mark(op) \in SUBSET {"rows", "add", "delete", "turn", "answer"}
    BY <1>3, <1>4, <1>5
  <2>3. QED
    BY <1>2, <1>5, <1>6, <2>1, <2>2, ItemsTold
<1>8. QED
  BY <1>1, <1>7, QuietHolds

LEMMA AnswerKeeps ==
  ASSUME ItemInv, NEW e \in Papers, AnswerIn(e)
  PROVE  ItemInv' /\ QuestionsHold
<1>1. /\ answered' = answered \union {e} /\ On(e) # {}
      /\ itemWork' = Meets("answer") /\ UNCHANGED <<item, editable, copies, sum>>
  BY DEF AnswerIn
<1>2. RowsTyped'
  BY <1>1 DEF ItemInv, RowsTyped, InBank
<1>3. Mark("answer") = {"answer"}
  BY DEF Mark
<1>4. Harmless({"answer"})
  BY <1>1 DEF Harmless, SameRow, InBank
<1>5. PICK done, op : done = {} /\ op = "answer"
  OBVIOUS
<1>6. itemWork' = [q \in QuestionReqs |-> IF q \in done THEN NoItemWork ELSE Meets(op)[q]]
  BY <1>1, <1>5 DEF Meets
<1>7. ItemInv'
  <2>1. LeavesOwn(done)
    BY <1>1 DEF LeavesOwn, ItemInv, RowsOwn
  <2>2. Harmless(Mark(op)) /\ Mark(op) \in SUBSET {"rows", "add", "delete", "turn", "answer"}
    BY <1>3, <1>4, <1>5
  <2>3. QED
    BY <1>2, <1>5, <1>6, <2>1, <2>2, ItemsTold
<1>8. QuestionsHold
  <2>1. copies # {}
    BY <1>1 DEF On
  <2>2. QED
    BY <1>1, <2>1 DEF QuestionsHold, NoDangling, Balanced, On, InBank
<1>9. QED
  BY <1>7, <1>8

---------------------------------------------------------------------------
(* Questions: commits                                                      *)

LEMMA WrittenTotal ==
  ASSUME RowsTyped, NEW f, Writes(f), NEW e \in Papers
  PROVE  /\ f[e] = KeepTotal => sum'[e] = sum[e]
         /\ \A n \in Nat : f[e] = NewTotal(e, n) => sum'[e] = n
<1>1. sum'[e] = IF f[e] = KeepTotal THEN sum[e] ELSE f[e]
  BY DEF Writes
<1>2. \A n \in Nat : n # KeepTotal
  BY DEF KeepTotal
<1>3. QED
  BY <1>1, <1>2 DEF NewTotal

LEMMA TotalsTyped ==
  ASSUME RowsTyped, NEW f \in [Papers -> Nat \union {KeepTotal}], Writes(f)
  PROVE  sum' \in [Papers -> Nat]
<1>1. \A e \in Papers : f[e] # KeepTotal => f[e] \in Nat
  OBVIOUS
<1>2. QED
  BY <1>1 DEF RowsTyped, Writes

(* The rows after a commit that changes marks or takes rows off exams. *)
Marked(w, c) == IF SameRow(c, w.marks) THEN NewMarks(c, w.m) ELSE c
Rewritten(w) == {Marked(w, c) : c \in {x \in copies : ~ SameRow(x, w.drops)}}

LEMMA MarksBalance ==
  ASSUME RowsTyped, Balanced, \A x, y \in copies : x.e = y.e /\ x.n = y.n => x = y,
         NEW w, w.op = "marks", w.m \in MarkValues, w.drops = {}, Fits(w),
         copies' = Rewritten(w), Writes(w.sums)
  PROVE  Balanced'
<1>1. PICK E \in SUBSET Papers :
        /\ w.marks = {c \in copies : c.e \in E /\ c.m # w.m}
        /\ \A e \in Papers : w.sums[e] = NewTotal(e, Capped(
             IF e \in E THEN sum[e] - Adds(On(e)) + w.m * Cardinality(On(e)) ELSE sum[e]))
  BY DEF Fits
<1>2. copies \in SUBSET Copies /\ w.m \in Nat
  BY MarkValuesAssumption DEF RowsTyped
<1>3. ASSUME NEW c \in copies
      PROVE  /\ c.e \in E => Marked(w, c) = NewMarks(c, w.m)
             /\ c.e \notin E => Marked(w, c) = c
             /\ Marked(w, c).e = c.e
  <2>1. c \in Copies /\ NewMarks(c, w.m) = [e |-> c.e, n |-> c.n, m |-> w.m]
    BY <1>2 DEF Copies, NewMarks
  <2>2. c.e \in E /\ c.m # w.m => SameRow(c, w.marks)
    BY <1>1 DEF SameRow
  <2>3. c.m = w.m => NewMarks(c, w.m) = c
    BY <2>1 DEF Copies
  <2>4. c.e \notin E => ~ SameRow(c, w.marks)
    BY <1>1 DEF SameRow
  <2>5. NewMarks(c, w.m).e = c.e
    BY <2>1
  <2>6. QED
    BY <2>2, <2>3, <2>4, <2>5 DEF Marked
<1>4. {x \in copies : ~ SameRow(x, w.drops)} = copies
  BY DEF SameRow
<1>5. copies' = {Marked(w, c) : c \in copies}
  BY <1>4, Zenon DEF Rewritten
<1>6. ASSUME NEW e \in Papers
      PROVE  sum'[e] = Others + Adds({c \in copies' : c.e = e})
  <2>1. PICK T : T = {c \in copies' : c.e = e}
    OBVIOUS
  <2>2. /\ On(e) \in SUBSET Copies /\ IsFiniteSet(On(e))
        /\ Adds(On(e)) \in Nat /\ Cardinality(On(e)) \in Nat
    BY OnTyped
  <2>3. sum[e] = Others + Adds(On(e)) /\ Others \in Nat /\ sum[e] \in Nat
    BY MarkValuesAssumption DEF Balanced, RowsTyped
  <2>4. CASE e \in E
    <3>1. T = Remarked(On(e), w.m)
      <4>1. T = {Marked(w, c) : c \in On(e)}
        BY <1>3, <1>5, <2>1 DEF On
      <4>2. \A c \in On(e) : Marked(w, c) = NewMarks(c, w.m)
        BY <1>3, <2>4 DEF On
      <4>3. QED
        BY <4>1, <4>2 DEF Remarked
    <3>2. Adds(T) = w.m * Cardinality(On(e))
      <4>1. \A x, y \in On(e) : x.e = y.e /\ x.n = y.n => x = y
        BY DEF On
      <4>2. QED
        BY <2>2, <3>1, <4>1, AddsRemarked
    <3>3. PICK k : k = w.m * Cardinality(On(e)) /\ k \in Nat
      BY <1>2, <2>2
    <3>4. w.sums[e] = NewTotal(e, Capped(sum[e] - Adds(On(e)) + k))
      BY <1>1, <2>4, <3>3
    <3>5. sum[e] - Adds(On(e)) + k = Others + k /\ Others + k \in Nat /\ Others + k \in Int
      BY <2>2, <2>3, <3>3
    <3>6. w.sums[e] = NewTotal(e, Others + k)
      BY <3>4, <3>5, TotalTyped
    <3>7. sum'[e] = Others + k
      BY <3>5, <3>6, WrittenTotal
    <3>8. QED
      BY <2>1, <3>2, <3>3, <3>7
  <2>5. CASE e \notin E
    <3>1. T = On(e)
      <4>1. T = {Marked(w, c) : c \in On(e)}
        BY <1>3, <1>5, <2>1 DEF On
      <4>2. \A c \in On(e) : Marked(w, c) = c
        BY <1>3, <2>5 DEF On
      <4>3. QED
        BY <4>1, <4>2
    <3>2. w.sums[e] = NewTotal(e, sum[e])
      BY <1>1, <2>3, <2>5, TotalTyped
    <3>3. sum'[e] = sum[e]
      BY <2>3, <3>2, WrittenTotal
    <3>4. QED
      BY <2>1, <2>3, <3>1, <3>3
  <2>6. QED
    BY <2>4, <2>5
<1>7. QED
  BY <1>6 DEF Balanced, On

LEMMA DeleteBalance ==
  ASSUME RowsTyped, Balanced, NEW w, w.op = "delete", Fits(w), copies' = Rewritten(w), Writes(w.sums)
  PROVE  Balanced'
<1>1. w.drops = copies /\ \A e \in Papers : w.sums[e] = NewTotal(e, Capped(sum[e] - Adds(On(e))))
  BY DEF Fits
<1>2. copies' = {}
  BY <1>1 DEF Rewritten, SameRow
<1>3. ASSUME NEW e \in Papers
      PROVE  sum'[e] = Others + Adds({c \in copies' : c.e = e})
  <2>1. Adds(On(e)) \in Nat
    BY OnTyped
  <2>2. sum[e] = Others + Adds(On(e)) /\ Others \in Nat
    BY MarkValuesAssumption DEF Balanced
  <2>3. sum[e] - Adds(On(e)) = Others /\ Others \in Int
    BY <2>1, <2>2
  <2>4. w.sums[e] = NewTotal(e, Others)
    BY <1>1, <2>2, <2>3, TotalTyped
  <2>5. sum'[e] = Others
    BY <2>2, <2>4, WrittenTotal
  <2>6. PICK S : S = {c \in copies' : c.e = e}
    OBVIOUS
  <2>7. S = {} /\ Adds(S) = 0
    BY <1>2, <2>6, FS_EmptySet, AddsTakes
  <2>8. sum'[e] = Others + Adds(S)
    BY <2>2, <2>5, <2>7
  <2>9. QED
    BY <2>6, <2>8
<1>4. QED
  BY <1>3 DEF Balanced, On

LEMMA AddBalance ==
  ASSUME RowsTyped, Balanced, NEW w, w.op = "add", w.drops = {}, Fits(w),
         copies' = {x \in copies : ~ SameRow(x, w.drops)} \union w.adds, Writes(w.sums)
  PROVE  Balanced'
<1>1. PICK x \in Copies :
        /\ On(x.e) = {} /\ w.adds = {x}
        /\ \A e \in Papers : w.sums[e] = IF e = x.e THEN NewTotal(e, Others + x.m) ELSE KeepTotal
  BY DEF Fits
<1>2. copies' = copies \union {x}
  BY <1>1 DEF SameRow
<1>3. ASSUME NEW e \in Papers
      PROVE  sum'[e] = Others + Adds({c \in copies' : c.e = e})
  <2>1. CASE e = x.e
    <3>1. {c \in copies' : c.e = e} = {x}
      BY <1>1, <1>2, <2>1 DEF On
    <3>2. x.m \in Nat /\ Others + x.m \in Nat
      <4>1. x.m \in MarkValues
        BY DEF Copies
      <4>2. x.m \in Nat /\ Others \in Nat
        BY <4>1, MarkValuesAssumption
      <4>3. QED
        BY <4>2
    <3>3. w.sums[e] = NewTotal(e, Others + x.m)
      BY <1>1, <2>1
    <3>4. sum'[e] = Others + x.m
      BY <3>2, <3>3, WrittenTotal
    <3>5. QED
      BY <3>1, <3>4, AddsOne
  <2>2. CASE e # x.e
    <3>1. {c \in copies' : c.e = e} = On(e)
      BY <1>2, <2>2 DEF On
    <3>2. sum'[e] = sum[e]
      BY <1>1, <2>2, WrittenTotal
    <3>3. QED
      BY <3>1, <3>2 DEF Balanced
  <2>3. QED
    BY <2>1, <2>2
<1>4. QED
  BY <1>3 DEF Balanced, On

LEMMA RemoveBalance ==
  ASSUME RowsTyped, Balanced, \A x, y \in copies : x.e = y.e /\ x.n = y.n => x = y,
         NEW w, w.op = "remove", w.adds = {}, Fits(w),
         copies' = {x \in copies : ~ SameRow(x, w.drops)} \union w.adds, Writes(w.sums)
  PROVE  Balanced'
<1>1. PICK x \in copies :
        /\ w.drops = {x}
        /\ \A e \in Papers : w.sums[e] = IF e = x.e THEN NewTotal(e, Capped(sum[e] - x.m)) ELSE KeepTotal
  BY DEF Fits
<1>2. copies' = copies \ {x}
  BY <1>1 DEF SameRow
<1>3. ASSUME NEW e \in Papers
      PROVE  sum'[e] = Others + Adds({c \in copies' : c.e = e})
  <2>1. CASE e = x.e
    <3>1. {c \in copies' : c.e = e} = On(e) \ {x} /\ x \in On(e)
      BY <1>2, <2>1 DEF On
    <3>2. On(e) \in SUBSET Copies /\ IsFiniteSet(On(e))
      BY OnTyped
    <3>3. Adds(On(e)) = x.m + Adds(On(e) \ {x})
      BY <3>1, <3>2, AddsTakes
    <3>4. PICK rest : rest = Adds(On(e) \ {x}) /\ rest \in Nat
      <4>1. On(e) \ {x} \in SUBSET Copies /\ IsFiniteSet(On(e) \ {x})
        BY <3>2, FS_Subset
      <4>2. QED
        BY <4>1, AddsTakes
    <3>5. sum[e] = Others + (x.m + rest) /\ x.m \in Nat /\ Others \in Nat
      BY <3>3, <3>4, MarkValuesAssumption DEF Balanced, RowsTyped, Copies
    <3>6. sum[e] - x.m = Others + rest /\ Others + rest \in Nat /\ Others + rest \in Int
      BY <3>4, <3>5
    <3>7. w.sums[e] = NewTotal(e, Others + rest)
      BY <1>1, <2>1, <3>6, TotalTyped
    <3>8. sum'[e] = Others + rest
      BY <3>6, <3>7, WrittenTotal
    <3>9. QED
      BY <3>1, <3>4, <3>8
  <2>2. CASE e # x.e
    <3>1. {c \in copies' : c.e = e} = On(e)
      BY <1>2, <2>2 DEF On
    <3>2. sum'[e] = sum[e]
      BY <1>1, <2>2, WrittenTotal
    <3>3. QED
      BY <3>1, <3>2 DEF Balanced
  <2>3. QED
    BY <2>1, <2>2
<1>4. QED
  BY <1>3 DEF Balanced, On

LEMMA RewrittenRows ==
  ASSUME RowsTyped, \A x, y \in copies : x.e = y.e /\ x.n = y.n => x = y,
         NEW w, w.marks # {} => w.m \in MarkValues
  PROVE  /\ Rewritten(w) \in SUBSET Copies /\ IsFiniteSet(Rewritten(w))
         /\ \A x, y \in Rewritten(w) : x.e = y.e /\ x.n = y.n => x = y
         /\ \A z \in Rewritten(w) : \E c \in copies :
              z.e = c.e /\ z.n = c.n /\ ~ SameRow(c, w.drops) /\ z = Marked(w, c)
<1>1. ASSUME NEW c \in copies
      PROVE  Marked(w, c) \in Copies /\ Marked(w, c).e = c.e /\ Marked(w, c).n = c.n
  <2>1. c \in Copies
    BY DEF RowsTyped
  <2>2. CASE SameRow(c, w.marks)
    <3>1. w.m \in MarkValues
      BY <2>2 DEF SameRow
    <3>2. Marked(w, c) = [e |-> c.e, n |-> c.n, m |-> w.m]
      BY <2>1, <2>2 DEF Marked, NewMarks, Copies
    <3>3. QED
      BY <2>1, <3>1, <3>2 DEF Copies
  <2>3. CASE ~ SameRow(c, w.marks)
    BY <2>1, <2>3 DEF Marked
  <2>4. QED
    BY <2>2, <2>3
<1>2. PICK K : K = {x \in copies : ~ SameRow(x, w.drops)}
  OBVIOUS
<1>3. K \subseteq copies /\ IsFiniteSet(K) /\ Rewritten(w) = {Marked(w, c) : c \in K}
  BY <1>2, FS_Subset DEF RowsTyped, Rewritten
<1>4. IsFiniteSet(Rewritten(w))
  <2>1. PICK f : f = [c \in K |-> Marked(w, c)]
    OBVIOUS
  <2>2. f \in Surjection(K, Rewritten(w))
    BY <1>3, <2>1 DEF Surjection
  <2>3. QED
    BY <1>3, <2>2, FS_Surjection
<1>5. \A z \in Rewritten(w) : \E c \in copies :
        z.e = c.e /\ z.n = c.n /\ ~ SameRow(c, w.drops) /\ z = Marked(w, c)
  BY <1>1, <1>2, <1>3
<1>6. Rewritten(w) \in SUBSET Copies
  BY <1>1, <1>3
<1>7. \A x, y \in Rewritten(w) : x.e = y.e /\ x.n = y.n => x = y
  <2>1. ASSUME NEW x \in Rewritten(w), NEW y \in Rewritten(w), x.e = y.e, x.n = y.n PROVE x = y
    <3>1. PICK c \in copies : x.e = c.e /\ x.n = c.n /\ x = Marked(w, c)
      BY <1>5
    <3>2. PICK d \in copies : y.e = d.e /\ y.n = d.n /\ y = Marked(w, d)
      BY <1>5
    <3>3. c = d
      BY <2>1, <3>1, <3>2
    <3>4. QED
      BY <3>1, <3>2, <3>3
  <2>2. QED
    BY <2>1
<1>8. QED
  BY <1>4, <1>5, <1>6, <1>7

(* The one that commits is done; the others are told. *)
LEMMA ItemLeaves ==
  ASSUME ItemInv, NEW r \in QuestionReqs, Leaves(r), itemWork[r].pc = "commit"
  PROVE  /\ itemWork' = [q \in QuestionReqs |-> IF q \in {r} THEN NoItemWork ELSE Meets(itemWork[r].op)[q]]
         /\ Mark(itemWork[r].op) \in SUBSET {"rows", "add", "delete", "turn", "answer"}
         /\ Mark(itemWork[r].op) \intersect Moved # {}
         /\ \A ops, kinds : itemWork[r].op \in ops /\ itemWork[r].met \intersect kinds # {} =>
              RacedItem(ops, kinds)
<1>1. itemWork' = [q \in QuestionReqs |-> IF q \in {r} THEN NoItemWork ELSE Meets(itemWork[r].op)[q]]
  BY DEF Leaves, Meets
<1>2. itemWork[r].op \in Moves
  BY DEF ItemInv, ItemShape
<1>3. itemWork'[r].pc = "idle"
  BY <1>1, NoItemWorkSound
<1>4. \A ops, kinds : itemWork[r].op \in ops /\ itemWork[r].met \intersect kinds # {} =>
        RacedItem(ops, kinds)
  BY <1>3 DEF RacedItem
<1>5. QED
  BY <1>1, <1>2, <1>4 DEF Mark, Moves, Moved

LEMMA CommitItemKeeps ==
  ASSUME ItemInv, NEW r \in QuestionReqs, CommitItem(r)
  PROVE  ItemInv' /\ QuestionsHold
<1>1. PICK w : w = itemWork[r]
  OBVIOUS
<1>2. /\ w \in ItemWorks /\ ItemShape(w) /\ ItemSound(w) /\ RowsTyped /\ RowsOwn
      /\ w.pc = "commit" /\ w.op \in {"marks", "delete"}
  BY <1>1 DEF ItemInv, CommitItem
<1>3. /\ w.adds = {}
      /\ w.op = "marks" => w.m \in MarkValues /\ w.drops = {}
      /\ w.op = "delete" => w.marks = {}
      /\ w.locks => w.m \in MarkValues
  BY <1>2 DEF ItemShape
<1>4. /\ item' = [status |-> IF w.op = "delete" THEN "gone" ELSE item.status,
                  marks  |-> IF w.locks THEN w.m ELSE item.marks]
      /\ Writes(w.sums) /\ Leaves(r) /\ UNCHANGED <<editable, answered>> /\ InBank
  BY <1>1 DEF CommitItem
<1>5. copies' = Rewritten(w)
  BY <1>1, Zenon DEF CommitItem, Rewritten, Marked, NewMarks
<1>6. /\ copies' \in SUBSET Copies /\ IsFiniteSet(copies')
      /\ \A x, y \in copies' : x.e = y.e /\ x.n = y.n => x = y
      /\ \A z \in copies' : \E c \in copies :
           z.e = c.e /\ z.n = c.n /\ ~ SameRow(c, w.drops) /\ z = Marked(w, c)
  <2>1. \A x, y \in copies : x.e = y.e /\ x.n = y.n => x = y
    BY <1>2 DEF RowsOwn
  <2>2. w.marks # {} => w.m \in MarkValues
    BY <1>2, <1>3
  <2>3. QED
    BY <1>2, <1>5, <2>1, <2>2, RewrittenRows
<1>7. RowsTyped'
  <2>1. sum' \in [Papers -> Nat]
    BY <1>2, <1>4, TotalsTyped DEF ItemWorks
  <2>2. item.status \in {"usable", "archived"} /\ item.marks \in MarkValues
    BY <1>2, <1>4 DEF RowsTyped, InBank
  <2>3. item' \in [status : {"none", "usable", "archived", "gone"}, marks : MarkValues \union {0}]
          /\ item'.marks \in MarkValues
    BY <1>3, <1>4, <2>2
  <2>4. editable' \in SUBSET Papers /\ answered' \in SUBSET Papers
    BY <1>2, <1>4 DEF RowsTyped
  <2>5. QED
    BY <1>6, <2>1, <2>3, <2>4 DEF RowsTyped
<1>8. /\ itemWork' = [q \in QuestionReqs |-> IF q \in {r} THEN NoItemWork ELSE Meets(w.op)[q]]
      /\ Mark(w.op) \in SUBSET {"rows", "add", "delete", "turn", "answer"}
      /\ Mark(w.op) \intersect Moved # {}
      /\ \A ops, kinds : w.op \in ops /\ w.met \intersect kinds # {} => RacedItem(ops, kinds)
  BY <1>1, <1>2, <1>4, ItemLeaves
<1>9. w.op = "marks" => item'.status = item.status
  BY <1>4
<1>10. Harmless(Mark(w.op))
  <2>1. \A c \in copies' : SameRow(c, copies)
    BY <1>6 DEF SameRow
  <2>2. (InBank => InBank') \/ "delete" \in Mark(w.op)
    BY <1>2, <1>9 DEF InBank, Mark
  <2>3. QED
    BY <1>4, <1>8, <2>1, <2>2 DEF Harmless
<1>11. ItemInv'
  <2>1. LeavesOwn({r})
    <3>1. ASSUME NEW q \in QuestionReqs \ {r}, NEW x \in itemWork[q].adds PROVE ~ SameRow(x, copies')
      <4>1. ~ SameRow(x, copies)
        BY <1>2 DEF RowsOwn
      <4>2. QED
        BY <1>6, <4>1 DEF SameRow
    <3>2. QED
      BY <1>6, <3>1 DEF LeavesOwn
  <2>2. PICK done : done = {r} /\ done \in SUBSET QuestionReqs
    OBVIOUS
  <2>3. QED
    BY <1>7, <1>8, <1>10, <2>1, <2>2, ItemsTold
<1>12. NoDangling' \/ RacedItem({"delete"}, {"add", "turn", "answer"})
  <2>1. CASE w.op = "marks"
    BY <1>4, <1>9, <2>1 DEF NoDangling, InBank
  <2>2. ASSUME w.op = "delete", w.met \intersect {"add", "turn", "answer"} = {} PROVE NoDangling'
    <3>1. answered = {} /\ \A c \in copies : SameRow(c, w.drops)
      BY <1>2, <2>2 DEF ItemSound
    <3>2. copies' = {} /\ answered' = {}
      BY <1>4, <1>6, <3>1
    <3>3. QED
      BY <3>2 DEF NoDangling
  <2>3. QED
    BY <1>2, <1>8, <2>1, <2>2
<1>13. Balanced => Balanced' \/ RacedItem(Moves, Moved)
  <2>1. w.op \in Moves
    BY <1>2 DEF Moves
  <2>2. ASSUME Balanced, w.met \intersect Moved = {} PROVE Balanced'
    <3>1. Fits(w)
      BY <1>2, <2>2 DEF ItemSound
    <3>2. \A x, y \in copies : x.e = y.e /\ x.n = y.n => x = y
      BY <1>2 DEF RowsOwn
    <3>3. CASE w.op = "marks"
      BY <1>2, <1>3, <1>4, <1>5, <2>2, <3>1, <3>2, <3>3, MarksBalance
    <3>4. CASE w.op = "delete"
      BY <1>2, <1>4, <1>5, <2>2, <3>1, <3>4, DeleteBalance
    <3>5. QED
      BY <1>2, <3>3, <3>4
  <2>3. QED
    BY <1>8, <2>1, <2>2
<1>14. ASSUME NEW e \in Papers \ editable, On(e)' # On(e) PROVE RacedItem(Moves, {"turn"})
  <2>1. ASSUME "turn" \notin w.met PROVE FALSE
    <3>1. \A c \in w.drops \union w.marks : c.e \in editable
      BY <1>2, <2>1 DEF ItemSound, Touches
    <3>2. \A c \in copies : c.e = e => ~ SameRow(c, w.drops) /\ ~ SameRow(c, w.marks)
      BY <1>14, <3>1 DEF SameRow
    <3>3. \A z \in copies' : z.e = e => z \in copies
      BY <1>6, <3>2 DEF Marked
    <3>4. \A c \in copies : c.e = e => c \in copies'
      BY <1>5, <3>2 DEF Rewritten, Marked
    <3>5. On(e)' = On(e)
      BY <3>3, <3>4 DEF On
    <3>6. QED
      BY <1>14, <3>5
  <2>2. w.op \in Moves
    BY <1>2 DEF Moves
  <2>3. QED
    BY <1>8, <2>1, <2>2
<1>15. QED
  BY <1>11, <1>12, <1>13, <1>14 DEF QuestionsHold

LEMMA CommitCopiesKeeps ==
  ASSUME ItemInv, NEW r \in QuestionReqs, CommitCopies(r)
  PROVE  ItemInv' /\ QuestionsHold
<1>1. PICK w : w = itemWork[r]
  OBVIOUS
<1>2. /\ w \in ItemWorks /\ ItemShape(w) /\ ItemSound(w) /\ RowsTyped /\ RowsOwn
      /\ w.pc = "commit" /\ w.op \in {"add", "remove"}
  BY <1>1 DEF ItemInv, CommitCopies
<1>3. /\ w.marks = {}
      /\ w.op = "add" => w.drops = {}
      /\ w.op = "remove" => w.adds = {}
      /\ \A x, y \in w.adds : x = y
      /\ w.adds \in SUBSET Copies
  BY <1>2 DEF ItemShape, ItemWorks
<1>4. /\ copies' = {x \in copies : ~ SameRow(x, w.drops)} \union w.adds
      /\ Writes(w.sums) /\ Leaves(r) /\ UNCHANGED <<item, editable, answered>>
  BY <1>1 DEF CommitCopies
<1>5. /\ \A x \in w.adds : ~ SameRow(x, copies)
      /\ \A q \in QuestionReqs \ {r} : \A x \in itemWork[q].adds : ~ SameRow(x, w.adds) /\ ~ SameRow(x, copies)
      /\ \A x, y \in copies : x.e = y.e /\ x.n = y.n => x = y
  BY <1>1, <1>2 DEF RowsOwn
<1>6. RowsTyped'
  <2>1. sum' \in [Papers -> Nat]
    BY <1>2, <1>4, TotalsTyped DEF ItemWorks
  <2>2. IsFiniteSet(w.adds)
    <3>1. CASE w.adds = {}
      BY <3>1, FS_EmptySet
    <3>2. CASE w.adds # {}
      <4>1. PICK x : w.adds = {x}
        BY <1>3, <3>2
      <4>2. QED
        BY <4>1, FS_Singleton
    <3>3. QED
      BY <3>1, <3>2
  <2>3. IsFiniteSet(copies')
    <3>1. IsFiniteSet({x \in copies : ~ SameRow(x, w.drops)})
      BY <1>2, FS_Subset DEF RowsTyped
    <3>2. QED
      BY <1>4, <2>2, <3>1, FS_Union
  <2>4. copies' \in SUBSET Copies
    BY <1>2, <1>3, <1>4 DEF RowsTyped
  <2>5. QED
    BY <1>2, <1>4, <2>1, <2>3, <2>4 DEF RowsTyped, InBank
<1>7. /\ itemWork' = [q \in QuestionReqs |-> IF q \in {r} THEN NoItemWork ELSE Meets(w.op)[q]]
      /\ Mark(w.op) \in SUBSET {"rows", "add", "delete", "turn", "answer"}
      /\ Mark(w.op) \intersect Moved # {}
      /\ \A ops, kinds : w.op \in ops /\ w.met \intersect kinds # {} => RacedItem(ops, kinds)
  BY <1>1, <1>2, <1>4, ItemLeaves
<1>8. Harmless(Mark(w.op))
  <2>1. (\A c \in copies' : SameRow(c, copies)) \/ "add" \in Mark(w.op)
    BY <1>2, <1>3, <1>4 DEF Mark, SameRow
  <2>2. InBank => InBank'
    BY <1>4 DEF InBank
  <2>3. QED
    BY <1>4, <1>7, <2>1, <2>2 DEF Harmless
<1>9. ItemInv'
  <2>1. LeavesOwn({r})
    <3>1. \A x, y \in copies' : x.e = y.e /\ x.n = y.n => x = y
      BY <1>3, <1>4, <1>5 DEF SameRow
    <3>2. \A q \in QuestionReqs \ {r} : \A x \in itemWork[q].adds : ~ SameRow(x, copies')
      BY <1>4, <1>5 DEF SameRow
    <3>3. QED
      BY <3>1, <3>2 DEF LeavesOwn
  <2>2. PICK done : done = {r} /\ done \in SUBSET QuestionReqs
    OBVIOUS
  <2>3. QED
    BY <1>6, <1>7, <1>8, <2>1, <2>2, ItemsTold
<1>10. NoDangling => NoDangling' \/ RacedItem({"add"}, {"delete"})
  <2>1. ASSUME w.op = "remove", NoDangling PROVE NoDangling'
    <3>1. copies' \subseteq copies
      BY <1>3, <1>4, <2>1
    <3>2. QED
      BY <1>4, <2>1, <3>1 DEF NoDangling, InBank
  <2>2. ASSUME w.op = "add", "delete" \notin w.met PROVE NoDangling'
    <3>1. InBank
      BY <1>2, <2>2 DEF ItemSound
    <3>2. QED
      BY <1>4, <3>1 DEF NoDangling, InBank
  <2>3. QED
    BY <1>2, <1>7, <2>1, <2>2
<1>11. Balanced => Balanced' \/ RacedItem(Moves, Moved)
  <2>1. w.op \in Moves
    BY <1>2 DEF Moves
  <2>2. ASSUME Balanced, w.met \intersect Moved = {} PROVE Balanced'
    <3>1. Fits(w)
      BY <1>2, <2>2 DEF ItemSound
    <3>2. CASE w.op = "add"
      BY <1>2, <1>3, <1>4, <2>2, <3>1, <3>2, AddBalance
    <3>3. CASE w.op = "remove"
      BY <1>2, <1>3, <1>4, <1>5, <2>2, <3>1, <3>3, RemoveBalance
    <3>4. QED
      BY <1>2, <3>2, <3>3
  <2>3. QED
    BY <1>7, <2>1, <2>2
<1>12. ASSUME NEW e \in Papers \ editable, On(e)' # On(e) PROVE RacedItem(Moves, {"turn"})
  <2>1. ASSUME "turn" \notin w.met PROVE FALSE
    <3>1. \A c \in w.adds \union w.drops : c.e \in editable
      BY <1>2, <2>1 DEF ItemSound, Touches
    <3>2. \A c \in copies : c.e = e => ~ SameRow(c, w.drops)
      BY <1>12, <3>1 DEF SameRow
    <3>3. On(e)' = On(e)
      BY <1>4, <1>12, <3>1, <3>2 DEF On
    <3>4. QED
      BY <1>12, <3>3
  <2>2. w.op \in Moves
    BY <1>2 DEF Moves
  <2>3. QED
    BY <1>7, <2>1, <2>2
<1>13. QED
  BY <1>9, <1>10, <1>11, <1>12 DEF QuestionsHold

LEMMA ItemStepKeeps == ItemInv /\ [QuestionNext]_itemVars => ItemInv' /\ [QuestionsHold]_itemVars
<1> SUFFICES ASSUME ItemInv, [QuestionNext]_itemVars PROVE ItemInv' /\ [QuestionsHold]_itemVars
  OBVIOUS
<1>1. CASE UNCHANGED itemVars
  <2>1. UNCHANGED <<item, editable, copies, sum, answered, itemWork>>
    BY <1>1 DEF itemVars
  <2>2. RowsTyped' /\ Harmless({})
    BY <2>1 DEF ItemInv, RowsTyped, Harmless, InBank, SameRow
  <2>3. QED
    BY <1>1, <2>1, <2>2, ItemUntold
<1>2. ASSUME NEW r \in QuestionReqs, QuestionStep(r) PROVE ItemInv' /\ QuestionsHold
  BY <1>2, AskMarksKeeps, SyncMarksKeeps, AskDeleteKeeps, AskAddKeeps, AskRemoveKeeps,
     CommitItemKeeps, CommitCopiesKeeps, DropItemKeeps DEF QuestionStep
<1>3. ASSUME NEW e \in Papers, Turn(e) \/ AnswerIn(e) PROVE ItemInv' /\ QuestionsHold
  BY <1>3, TurnKeeps, AnswerKeeps
<1>4. QED
  BY <1>1, <1>2, <1>3, CreateItemKeeps, SetStatusKeeps DEF QuestionNext

(* In every reachable state what a request has read of the question, its   *)
(* rows and the totals still holds, or it has met somebody who changes it; *)
(* and no two rows have one number on one exam.                            *)
THEOREM ItemInvariance == QuestionSpec => []ItemInv
<1>1. QuestionInit => ItemInv
  BY ItemsBegin
<1>2. ItemInv /\ [QuestionNext]_itemVars => ItemInv'
  BY ItemStepKeeps
<1>3. QED
  BY <1>1, <1>2, PTL DEF QuestionSpec

(* The question, its rows and what requests hold are of their types. *)
THEOREM QuestionsTyped == QuestionSpec => []QuestionTypeOK
<1>1. ItemInv => QuestionTypeOK
  BY DEF ItemInv, RowsTyped, QuestionTypeOK, ItemWorks
<1>2. QED
  BY <1>1, ItemInvariance, PTL

(* Exams and answers keep their question, totals add up and an exam past   *)
(* draft keeps its marks, unless the request that commits was overtaken    *)
(* (ItemService's deletion and _sync_draft_exam_marks(), ExamService's     *)
(* add_items() and remove_item()).                                         *)
THEOREM QuestionsStayKept == QuestionSpec => QuestionsKept
<1>1. ItemInv /\ [QuestionNext]_itemVars => [QuestionsHold]_itemVars
  BY ItemStepKeeps
<1>2. QED
  BY <1>1, ItemInvariance, PTL DEF QuestionSpec, QuestionsKept, QuestionsHold

---------------------------------------------------------------------------
(* Marks and the bank as a whole                                           *)

LEMMA WorkPartsStep ==
  ASSUME [WorkNext]_<<focus, vars, bankParts>>
  PROVE  /\ [Next]_vars /\ [TopicNext]_topicVars /\ [LevelNext]_levelVars
         /\ [PeriodNext]_periodVars /\ [StaffNext]_staffVars /\ [QuestionNext]_itemVars
BY DEF WorkNext, BankNext, bankParts

(* A request of one part leaves alone what the others keep, so what is     *)
(* proved of marks, topics, levels, periods, staff and questions, each by  *)
(* itself, holds of the composed specification.                            *)
THEOREM WorkIsItsParts ==
  WorkSpec => Spec /\ TopicSpec /\ LevelSpec /\ PeriodSpec /\ StaffSpec /\ QuestionSpec
<1>1. WorkInit => Init /\ TopicInit /\ LevelInit /\ PeriodInit /\ StaffInit /\ QuestionInit
  BY DEF WorkInit
<1>2. QED
  BY <1>1, WorkPartsStep, PTL
     DEF WorkSpec, Spec, TopicSpec, LevelSpec, PeriodSpec, StaffSpec, QuestionSpec

(* Marks, topics, levels, periods, grants, questions and what requests     *)
(* hold of them have their types.                                          *)
THEOREM WorkTyped == WorkSpec => []WorkTypeOK
BY WorkIsItsParts, TypeCorrect, TopicsTyped, LevelsTyped, PeriodsTyped, StaffTyped, QuestionsTyped, PTL
   DEF WorkTypeOK

=============================================================================
