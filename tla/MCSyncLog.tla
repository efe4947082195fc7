------------------------------ MODULE MCSyncLog ------------------------------
(* Instances of SyncLog for TLC. *)
EXTENDS SyncLog

CONSTANTS o1, o2, s1, s2, d1, e1, e2, e3, m1, m2, m3, p1, p2

mcOrgOf == [d \in Devices |-> o2]
mcRank == [e \in Entities |-> IF e = e2 THEN 0 ELSE 1]
mcSize == [v \in Values |-> IF v = p2 THEN 2 ELSE 1]
\* p2 is raw JSON, or text outside ASCII: base64 of its canonical form is larger than what the
\* client sent.
mcGrownSize == [v \in Values |-> IF v = p2 THEN 4 ELSE 1]
mcScope == [d \in Devices |-> Entities]
mcNarrowScope == [d \in Devices |-> {e1, e2}]

Rec(m, e, b, v) == [mid |-> m, ent |-> e, base |-> b, val |-> v]

\* Batches that race in o1: a create of e1; a deletion of the first version that reuses its id;
\* and a batch that creates e1 under another id, with a child before its parent and a record
\* without an id.
mcRacing == {
    <<Rec(m2, e1, None, p2)>>,
    <<Rec(m2, e1, 1, Tombstone)>>,
    <<Rec(m1, e1, None, p1), Rec(NoId, e1, None, p1), Rec(m2, e2, None, p1)>> }

\* Batches a device of o2 pulls: two entities, one of them changed twice, a large payload, and
\* a third entity outside the device's scope.
mcFeed == {
    <<Rec(m1, e1, None, p1), Rec(m2, e2, None, p2)>>,
    <<Rec(m3, e1, 2, p2)>>,
    <<Rec(m3, e3, None, p1)>> }

mcBatches == mcRacing \cup mcFeed

-----------------------------------------------------------------------------
(* Two organizations and one counter.  A behaviour is about one of them at a *)
(* time: two handlers push to o1, or one handler pushes to o2 and a device   *)
(* pulls.  It may turn to the other as long as the first has committed       *)
(* nothing; the sequence numbers of its failed pushes are then spent.        *)

Quiet(o) ==
    log[o] = << >> /\ mutation[o] = NoMutations /\ \A s \in Sessions : push[s].org # o

Given(s, o, batches) == push'[s].org \in {None, o} /\ push'[s].batch \in {<< >>} \cup batches

\* The handlers are alike: the first takes a batch when both are idle.
RacingNext ==
    /\ Quiet(o2) /\ pull = [d \in Devices |-> IdlePull] /\ scope = InitScope
    /\ \E s \in Sessions :
        /\ PushStep(s) /\ Given(s, o1, mcRacing)
        /\ push[s].pc = "idle" => s = s1 \/ push[s1].pc # "idle"

FeedNext ==
    /\ Quiet(o1)
    /\ \/ PushStep(s1) /\ Given(s1, o2, mcFeed) /\ push'[s1].attempt <= 1
       \/ \E d \in Devices : PullStep(d)

mcSpec ==
    /\ Init /\ [][RacingNext \/ FeedNext]_vars
    /\ \A d \in Devices :
        WF_vars(Quiet(o1) /\ PullScan(d)) /\ SF_vars(Quiet(o1) /\ PullPage(d))
=============================================================================
