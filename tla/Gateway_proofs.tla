---------------------------- MODULE Gateway_proofs -----------------------------
(***************************************************************************)
(* What the gateway keeps, for any constants: every agent that runs is in  *)
(* a map of the gateway or in the hands of a request that will publish or  *)
(* stop it; clients get every event and one outcome of each approval; a    *)
(* prompt is answered by its own turn; settings in force are those on disk.*)
(***************************************************************************)
EXTENDS Gateway, SequenceTheorems, WellFoundedInduction, TLAPS

-----------------------------------------------------------------------------
(* GatewaySessions: types. *)

Stages == {"refused", "dispatch", "put", "header", "use", "halt", "error", "sdk", "take", "done",
           "check", "spawn", "swap", "retire", "reread", "subscribed", "waiting", "deleteStop",
           "deleteStored"}

RequestType == [op : Ops, ag : Nat, old : Nat, fallback : BOOLEAN, at : Stages]

(* Agents are numbered as they start; 0 is none of them.                    *)
TypeInv ==
    /\ req \in Seq(RequestType)
    /\ started \in Nat /\ mapped \in Nat /\ sdk \in Nat
    /\ alive \subseteq 1 .. started

(* The stages at which a request holds an agent to publish or to stop.      *)
Holding == {"swap", "retire", "deleteStop"}

(* Replacing one request keeps the others.                                  *)
LEMMA ReplaceOne ==
    ASSUME req \in Seq(RequestType), NEW r \in Requests, NEW new \in RequestType,
           req' = [req EXCEPT ![r] = new]
    PROVE  /\ req' \in Seq(RequestType) /\ Requests' = Requests
           /\ req'[r] = new /\ \A q \in Requests \ {r} : req'[q] = req[q]
<1>1. r \in 1 .. Len(req) /\ Requests = 1 .. Len(req)
  BY LenProperties DEF Requests
<1>2. req' \in Seq(RequestType) /\ Len(req') = Len(req)
  BY <1>1, ExceptSeq
<1>3. Requests' = Requests
  BY <1>1, <1>2, LenProperties DEF Requests
<1>4. QED
  BY <1>1, <1>2, <1>3, LenProperties DEF Requests

(* Each step of a request replaces its record by one of the type.           *)
LEMMA RequestMoves ==
    ASSUME TypeInv, NEW r \in Requests, Step(r)
    PROVE  \E new \in RequestType : req' = [req EXCEPT ![r] = new]
<1> DEFINE New(a, o, f, s) == [req[r] EXCEPT !.ag = a, !.old = o, !.fallback = f, !.at = s]
<1>1. req[r] \in RequestType /\ mapped \in Nat /\ started + 1 \in Nat /\ req \in Seq(RequestType)
  BY LenProperties DEF TypeInv, Requests
<1>. req[r].ag \in Nat /\ req[r].old \in Nat /\ req[r].fallback \in BOOLEAN
  BY <1>1 DEF RequestType
<1>2. \A a, o \in Nat, f \in BOOLEAN, s \in Stages : New(a, o, f, s) \in RequestType
  BY <1>1 DEF RequestType
<1> HIDE DEF New
<1>3. ASSUME NEW s \in Stages, To(r, s) PROVE \E new \in RequestType : req' = [req EXCEPT ![r] = new]
  <2>1. req' = [req EXCEPT ![r] = New(req[r].ag, req[r].old, req[r].fallback, s)]
    BY <1>1, <1>3 DEF To, RequestType, New
  <2>2. QED
    BY <1>2, <2>1
<1>4. ASSUME NEW a \in Nat, NEW s \in Stages, req' = [req EXCEPT ![r].ag = a, ![r].at = s]
      PROVE  \E new \in RequestType : req' = [req EXCEPT ![r] = new]
  <2>1. req' = [req EXCEPT ![r] = New(a, req[r].old, req[r].fallback, s)]
    BY <1>1, <1>4 DEF RequestType, New
  <2>2. QED
    BY <1>2, <2>1
<1>5. ASSUME NEW o \in Nat, NEW s \in Stages, req' = [req EXCEPT ![r].at = s, ![r].old = o]
      PROVE  \E new \in RequestType : req' = [req EXCEPT ![r] = new]
  <2>1. req' = [req EXCEPT ![r] = New(req[r].ag, o, req[r].fallback, s)]
    BY <1>1, <1>5 DEF RequestType, New
  <2>2. QED
    BY <1>2, <2>1
<1>6. CASE Dispatch(r)
  <2>1. CASE \E s \in Stages : To(r, s)
    BY <2>1, <1>3
  <2>2. CASE \E a \in Nat, s \in Stages : req' = [req EXCEPT ![r].ag = a, ![r].at = s]
    BY <2>2, <1>4
  <2>3. QED
    BY <1>1, <1>6, <2>1, <2>2 DEF Dispatch, Stages
<1>7. CASE LookupHeader(r)
  BY <1>3, <1>7 DEF LookupHeader, Stages
<1>8. CASE Resume(r)
  BY <1>3, <1>8 DEF Resume, Stages
<1>9. CASE PutHeader(r)
  <2>1. req' = [req EXCEPT ![r] = New(req[r].ag, req[r].old, TRUE, "spawn")]
    BY <1>1, <1>9 DEF PutHeader, RequestType, New
  <2>2. QED
    BY <1>1, <1>2, <2>1 DEF Stages
<1>10. CASE SpawnAgent(r)
  <2>1. req' = [req EXCEPT ![r] = New(started + 1, req[r].old, req[r].fallback, "swap")]
    BY <1>1, <1>10 DEF SpawnAgent, RequestType, New
  <2>2. QED
    BY <1>1, <1>2, <2>1 DEF Stages
<1>11. CASE SwapAgent(r)
  BY <1>1, <1>5, <1>11 DEF SwapAgent, Stages
<1>12. CASE RetireOld(r)
  BY <1>1, <1>5, <1>12 DEF RetireOld, Stages
<1>13. CASE Reread(r)
  BY <1>1, <1>4, <1>13 DEF Reread, Stages
<1>14. CASE UseAgent(r)
  BY <1>3, <1>14 DEF UseAgent, Stages
<1>15. CASE StopSession(r)
  BY <1>3, <1>15 DEF StopSession, Stages
<1>16. CASE DeleteTake(r)
  BY <1>1, <1>5, <1>16 DEF DeleteTake, Stages
<1>17. CASE DeleteStop(r)
  BY <1>1, <1>5, <1>17 DEF DeleteStop, Stages
<1>18. CASE DeleteStored(r)
  BY <1>3, <1>18 DEF DeleteStored, Stages
<1>19. CASE TryPost(r)
  BY <1>3, <1>19 DEF TryPost, Stages
<1>20. CASE InboundGivesUp(r)
  BY <1>3, <1>20 DEF InboundGivesUp, Stages
<1>21. CASE SdkPrompt(r)
  BY <1>3, <1>21 DEF SdkPrompt, Stages
<1>22. CASE SdkShutdown(r)
  BY <1>3, <1>22 DEF SdkShutdown, Stages
<1>23. QED
  BY <1>6, <1>7, <1>8, <1>9, <1>10, <1>11, <1>12, <1>13, <1>14, <1>15, <1>16, <1>17, <1>18, <1>19,
     <1>20, <1>21, <1>22 DEF Step

(* An agent that starts is the next one; a stopped one leaves alive.        *)
LEMMA AliveStays ==
    ASSUME TypeInv, started' = started \/ started' = started + 1,
           \/ alive' \subseteq alive
           \/ started' = started + 1 /\ alive' \subseteq alive \cup {started + 1}
    PROVE  started' \in Nat /\ alive' \subseteq 1 .. started'
<1>1. CASE alive' \subseteq alive
  BY <1>1 DEF TypeInv
<1>2. CASE started' = started + 1 /\ alive' \subseteq alive \cup {started + 1}
  <2>1. \A a \in alive' : a \in 1 .. started \/ a = started + 1
    BY <1>2 DEF TypeInv
  <2>2. QED
    BY <1>2, <2>1 DEF TypeInv
<1>3. QED
  BY <1>1, <1>2

(* What a request's step does to the maps and the agents.                   *)
LEMMA AgentsMove ==
    ASSUME TypeInv, NEW r \in Requests, Step(r)
    PROVE  /\ mapped' \in Nat /\ sdk' \in Nat
           /\ started' = started \/ started' = started + 1
           /\ \/ alive' \subseteq alive
              \/ started' = started + 1 /\ alive' \subseteq alive \cup {started + 1}
<1>1. req[r] \in RequestType
  BY LenProperties DEF TypeInv, Requests
<1>2. req[r].ag \in Nat /\ mapped \in Nat /\ sdk \in Nat /\ started + 1 \in Nat
  BY <1>1 DEF RequestType, TypeInv
<1>3. CASE \/ Dispatch(r) \/ LookupHeader(r) \/ Resume(r) \/ PutHeader(r) \/ Reread(r) \/ UseAgent(r)
           \/ DeleteStored(r) \/ TryPost(r) \/ InboundGivesUp(r)
  BY <1>2, <1>3 DEF Dispatch, LookupHeader, Resume, PutHeader, Reread, UseAgent, DeleteStored, TryPost,
                    InboundGivesUp, agents, sdkState
<1>4. CASE RetireOld(r) \/ StopSession(r) \/ DeleteStop(r)
  BY <1>2, <1>4 DEF RetireOld, StopSession, DeleteStop, Stopped, sdkState
<1>5. CASE SpawnAgent(r) \/ SwapAgent(r) \/ DeleteTake(r)
  BY <1>2, <1>5 DEF SpawnAgent, SwapAgent, DeleteTake, StartNew, agents, sdkState
<1>6. CASE SdkPrompt(r) \/ SdkShutdown(r)
  BY <1>2, <1>6 DEF SdkPrompt, SdkShutdown, Stopped
<1>7. QED
  BY <1>3, <1>4, <1>5, <1>6 DEF Step

(* A request arrives with no agent in hand.                                 *)
LEMMA ArriveAppends ==
    ASSUME TypeInv, NEW op \in Ops, NEW trusted \in BOOLEAN, NEW wellFormed \in BOOLEAN,
           Arrive(op, trusted, wellFormed)
    PROVE  /\ req' \in Seq(RequestType) /\ Requests \subseteq Requests'
           /\ \A q \in Requests : req'[q] = req[q]
<1> DEFINE new == [op |-> op, ag |-> 0, old |-> 0, fallback |-> FALSE,
                   at |-> IF trusted /\ wellFormed THEN "dispatch" ELSE "refused"]
<1>1. new \in RequestType /\ req' = Append(req, new)
  BY DEF Arrive, RequestType, Stages
<1> HIDE DEF new
<1>2. req \in Seq(RequestType)
  BY DEF TypeInv
<1>3. QED
  BY <1>1, <1>2, AppendProperties, LenProperties DEF Requests

(* A turn/end sends the requests it reaches home.                           *)
LEMMA EndTurnReturns ==
    ASSUME TypeInv, NEW a, EndTurn(a)
    PROVE  /\ req' \in Seq(RequestType) /\ Requests' = Requests
           /\ \A q \in Requests : req[q].at \in Holding => req'[q] = req[q]
<1>1. req \in Seq(RequestType) /\ Requests = 1 .. Len(req) /\ Len(req) \in Nat
  BY LenProperties DEF TypeInv, Requests
<1>2. PICK reached \in SUBSET {r \in Requests : At(r, "waiting") /\ req[r].ag = a} :
         req' = [r \in Requests |-> IF r \in reached THEN [req[r] EXCEPT !.at = "done"] ELSE req[r]]
  BY DEF EndTurn
<1>3. \A r \in Requests : req[r] \in RequestType
  BY <1>1, LenProperties
<1>4. \A r \in Requests : [req[r] EXCEPT !.at = "done"] \in RequestType
  BY <1>3 DEF RequestType, Stages
<1>5. req' \in [1 .. Len(req) -> RequestType]
  BY <1>1, <1>2, <1>3, <1>4
<1>6. req' \in Seq(RequestType) /\ Len(req') = Len(req)
  BY <1>1, <1>5, SeqDef, LenProperties
<1>7. Requests' = Requests
  BY <1>1, <1>5 DEF Requests
<1>8. QED
  BY <1>2, <1>6, <1>7 DEF At, Holding

(* Every step keeps the types.                                              *)
LEMMA TypeStep == TypeInv /\ [Next]_vars => TypeInv'
<1> SUFFICES ASSUME TypeInv, [Next]_vars PROVE TypeInv'
  OBVIOUS
<1>1. ASSUME NEW op \in Ops, NEW wellFormed \in BOOLEAN, NEW host, NEW origin, NEW site,
             Arrive(op, RequestTrusted(host, origin, site), wellFormed)
      PROVE  TypeInv'
  <2>1. RequestTrusted(host, origin, site) \in BOOLEAN
    BY DEF RequestTrusted
  <2>2. req' \in Seq(RequestType)
    BY <1>1, <2>1, ArriveAppends
  <2>3. QED
    BY <1>1, <2>2 DEF Arrive, TypeInv, agents, sdkState
<1>2. ASSUME NEW r \in Requests, Step(r) PROVE TypeInv'
  <2>1. req' \in Seq(RequestType)
    BY <1>2, RequestMoves, ReplaceOne DEF TypeInv
  <2>2. QED
    BY <1>2, <2>1, AgentsMove, AliveStays DEF TypeInv
<1>3. ASSUME NEW a \in 1 .. started, StartTurn(a) PROVE TypeInv'
  BY <1>3 DEF StartTurn, TypeInv
<1>4. ASSUME NEW a \in 1 .. started, EndTurn(a) PROVE TypeInv'
  BY <1>4, EndTurnReturns DEF EndTurn, TypeInv
<1>5. CASE UNCHANGED vars
  BY <1>5 DEF vars, agents, sdkState, TypeInv
<1>6. QED
  BY <1>1, <1>2, <1>3, <1>4, <1>5 DEF Next

-----------------------------------------------------------------------------
(* Nobody is lost. *)

(* A step that stops agents or none, starts none, and leaves the maps and   *)
(* every request that holds an agent alone, loses none.                     *)
LEMMA NobodyMoves ==
    ASSUME NoStrayAgent, alive' \subseteq alive, UNCHANGED <<mapped, sdk>>, Requests \subseteq Requests',
           \A q \in Requests : req[q].at \in Holding => req'[q] = req[q]
    PROVE  NoStrayAgent'
  BY DEF NoStrayAgent, At, Holding

(* A spawned agent stays in the hands of its request until it is published, *)
(* and the one it replaces until it is stopped.                             *)
LEMMA RequestLosesNobody ==
    ASSUME TypeInv, NoStrayAgent, NEW r \in Requests, Step(r)
    PROVE  NoStrayAgent'
<1>1. Requests' = Requests /\ \A q \in Requests \ {r} : req'[q] = req[q]
  BY RequestMoves, ReplaceOne DEF TypeInv
<1>2. req[r] \in RequestType /\ req \in Seq(RequestType)
  BY LenProperties DEF TypeInv, Requests
<1>3. CASE \/ Dispatch(r) \/ LookupHeader(r) \/ Resume(r) \/ PutHeader(r) \/ Reread(r) \/ UseAgent(r)
           \/ DeleteStored(r) \/ TryPost(r) \/ InboundGivesUp(r)
  <2>1. req[r].at \notin Holding
    BY <1>3 DEF Dispatch, LookupHeader, Resume, PutHeader, Reread, UseAgent, DeleteStored, TryPost,
                InboundGivesUp, At, Holding
  <2>2. UNCHANGED <<mapped, sdk, alive>>
    BY <1>3 DEF Dispatch, LookupHeader, Resume, PutHeader, Reread, UseAgent, DeleteStored, TryPost,
                InboundGivesUp, agents, sdkState
  <2>3. QED
    BY <1>1, <2>1, <2>2, NobodyMoves
<1>4. CASE StopSession(r)
  BY <1>1, <1>4, NobodyMoves DEF StopSession, Stopped, sdkState, At, Holding
<1>5. CASE SpawnAgent(r)
  <2>1. req'[r].at = "swap" /\ req'[r].ag = started + 1
    BY <1>2, <1>5 DEF SpawnAgent, RequestType, Requests
  <2>2. alive' = alive \cup {started + 1} /\ UNCHANGED <<mapped, sdk>> /\ req[r].at = "spawn"
    BY <1>5 DEF SpawnAgent, StartNew, sdkState, At
  <2>3. QED
    BY <1>1, <2>1, <2>2 DEF NoStrayAgent, At
<1>6. CASE SwapAgent(r)
  <2>1. req'[r].at = "retire" /\ req'[r].old = mapped
    BY <1>2, <1>6 DEF SwapAgent, RequestType, Requests
  <2>2. mapped' = req[r].ag /\ UNCHANGED <<alive, sdk>> /\ req[r].at = "swap"
    BY <1>6 DEF SwapAgent, agents, sdkState, At
  <2>3. QED
    BY <1>1, <2>1, <2>2 DEF NoStrayAgent, At
<1>7. CASE RetireOld(r) \/ DeleteStop(r)
  <2>1. alive' = alive \ {req[r].old} /\ UNCHANGED <<mapped, sdk>> /\ req[r].at \in {"retire", "deleteStop"}
    BY <1>7 DEF RetireOld, DeleteStop, Stopped, sdkState, At, TypeInv
  <2>2. QED
    BY <1>1, <2>1 DEF NoStrayAgent, At
<1>8. CASE DeleteTake(r)
  <2>1. req'[r].at = "deleteStop" /\ req'[r].old = mapped
    BY <1>2, <1>8 DEF DeleteTake, RequestType, Requests
  <2>2. UNCHANGED <<alive, sdk>> /\ req[r].at = "take"
    BY <1>8 DEF DeleteTake, agents, sdkState, At
  <2>3. QED
    BY <1>1, <2>1, <2>2 DEF NoStrayAgent, At
<1>9. CASE SdkPrompt(r) /\ sdk # 0
  BY <1>1, <1>9, NobodyMoves DEF SdkPrompt, At, Holding
<1>10. CASE SdkPrompt(r) /\ sdk = 0
  <2>1. alive' = alive \cup {started + 1} /\ sdk' = started + 1 /\ mapped' = mapped /\ req[r].at = "sdk"
    BY <1>10 DEF SdkPrompt, At
  <2>2. 0 \notin alive
    BY DEF TypeInv
  <2>3. QED
    BY <1>1, <1>10, <2>1, <2>2 DEF NoStrayAgent, At
<1>11. CASE SdkShutdown(r)
  <2>1. alive' = alive \ {sdk} /\ mapped' = mapped /\ req[r].at = "sdk"
    BY <1>11 DEF SdkShutdown, Stopped, At, TypeInv
  <2>2. QED
    BY <1>1, <2>1 DEF NoStrayAgent, At
<1>12. QED
  BY <1>3, <1>4, <1>5, <1>6, <1>7, <1>8, <1>9, <1>10, <1>11 DEF Step

(* Every step of the gateway keeps every agent in sight.                    *)
LEMMA StrayStep == TypeInv /\ NoStrayAgent /\ [Next]_vars => NoStrayAgent'
<1> SUFFICES ASSUME TypeInv, NoStrayAgent, [Next]_vars PROVE NoStrayAgent'
  OBVIOUS
<1>1. ASSUME NEW op \in Ops, NEW wellFormed \in BOOLEAN, NEW host, NEW origin, NEW site,
             Arrive(op, RequestTrusted(host, origin, site), wellFormed)
      PROVE  NoStrayAgent'
  <2>1. RequestTrusted(host, origin, site) \in BOOLEAN
    BY DEF RequestTrusted
  <2>2. QED
    BY <1>1, <2>1, ArriveAppends, NobodyMoves DEF Arrive, agents, sdkState
<1>2. ASSUME NEW r \in Requests, Step(r) PROVE NoStrayAgent'
  BY <1>2, RequestLosesNobody
<1>3. ASSUME NEW a \in 1 .. started, StartTurn(a) PROVE NoStrayAgent'
  BY <1>3 DEF StartTurn, NoStrayAgent, At, Requests
<1>4. ASSUME NEW a \in 1 .. started, EndTurn(a) PROVE NoStrayAgent'
  BY <1>4, EndTurnReturns, NobodyMoves DEF EndTurn
<1>5. CASE UNCHANGED vars
  BY <1>5 DEF vars, agents, sdkState, NoStrayAgent, At, Requests
<1>6. QED
  BY <1>1, <1>2, <1>3, <1>4, <1>5 DEF Next

(* However the requests that spawn, stop, replace and delete a session's    *)
(* agent interleave, an agent that runs is the one a map holds or one that  *)
(* a request still has in hand: spawnAgent and session.delete let go of     *)
(* none, for any number of requests.                                        *)
THEOREM NobodyStrays == Spec => []NoStrayAgent
<1>1. Init => TypeInv /\ NoStrayAgent
  BY EmptySeq DEF Init, TypeInv, NoStrayAgent
<1>2. QED
  BY <1>1, TypeStep, StrayStep, PTL DEF Spec

-----------------------------------------------------------------------------
(* ConfigStores: revisions and the disk.                                    *)

(* What a client was shown is not ahead of what is in force.                *)
Shown(c) ==
    /\ seen[c].boot \in Nat /\ seen[c].rev \in Nat
    /\ seen[c].boot <= boot
    /\ seen[c].boot = boot => seen[c].rev <= rev
    /\ seen[c].boot = boot /\ seen[c].rev = rev => seen[c].section = doc

(* Nor the feedback it saw, and a version that was handed out is not        *)
(* handed out again.                                                        *)
Heard(c) ==
    /\ heard[c].version \in Nat /\ heard[c].version <= versions
    /\ heard[c].version = item.version => heard[c] = item
    /\ heard[c].version = 0 => heard[c] = Config!NoItem

(* What clients were shown and heard, and what is in force and on disk.     *)
SettingsInv ==
    /\ rev \in Nat /\ boot \in Nat \ {0} /\ versions \in Nat
    /\ DOMAIN seen = Clients /\ \A c \in Clients : Shown(c)
    /\ item.version \in Nat /\ item.version <= versions
    /\ item.version = 0 => item = Config!NoItem
    /\ DOMAIN heard = Clients /\ \A c \in Clients : Heard(c)
    /\ Config!DiskFaithful

(* A write names its content with a new revision, or changes nothing.       *)
LEMMA CommitStep ==
    ASSUME SettingsInv, NEW next, Config!Commit(next), UNCHANGED <<boot, seen, Config!feedback>>
    PROVE  SettingsInv'
<1>1. CASE ~unusable /\ doc' = next /\ disk' = next /\ rev' = rev + 1
  <2>1. \A c \in Clients : Shown(c)'
    BY <1>1 DEF SettingsInv, Shown
  <2>2. Config!DiskFaithful'
    BY <1>1 DEF Config!Commit, Config!DiskFaithful
  <2>3. QED
    BY <1>1, <2>1, <2>2 DEF SettingsInv, Heard, Config!feedback
<1>2. CASE UNCHANGED <<doc, disk, rev>>
  BY <1>2 DEF Config!Commit, SettingsInv, Shown, Heard, Config!DiskFaithful, Config!feedback, Config!NoItem,
     Config!Corrupt, Config!Empty
<1>3. QED
  BY <1>1, <1>2 DEF Config!Commit

(* Nothing of what the clients know is touched.                             *)
LEMMA OthersStep ==
    ASSUME SettingsInv, UNCHANGED <<Config!settings, boot, seen, Config!feedback>>
    PROVE  SettingsInv'
  BY DEF SettingsInv, Shown, Heard, Config!DiskFaithful, Config!settings, Config!feedback, Config!NoItem,
     Config!Corrupt, Config!Empty

LEMMA RestartStep == SettingsInv /\ Config!Restart => SettingsInv'
<1> SUFFICES ASSUME SettingsInv, Config!Restart PROVE SettingsInv'
  OBVIOUS
<1>1. \A c \in Clients : Shown(c)'
  BY DEF Config!Restart, SettingsInv, Shown
<1>2. \A c \in Clients : Heard(c)'
  BY DEF Config!Restart, SettingsInv, Heard, Config!NoItem
<1>3. Config!DiskFaithful'
  BY DEF Config!Restart, SettingsInv, Config!DiskFaithful, Config!Loaded
<1>4. QED
  BY <1>1, <1>2, <1>3 DEF SettingsInv, Config!Restart, Config!NoItem

LEMMA DescribeStep ==
    ASSUME SettingsInv, NEW c \in Clients, Config!Describe(c)
    PROVE  SettingsInv'
<1>1. \A d \in Clients : Shown(d)'
  BY DEF SettingsInv, Config!Describe, Config!settings, Shown
<1>2. QED
  BY <1>1 DEF SettingsInv, Config!Describe, Heard, Config!DiskFaithful, Config!settings, Config!feedback,
     Config!NoItem, Config!Corrupt, Config!Empty

LEMMA FeedbackStep ==
    ASSUME SettingsInv, NEW c \in Clients,
           Config!FeedbackList(c) \/ Config!FeedbackDelete(c)
           \/ \E rating \in {"like", "dislike"} : Config!FeedbackPut(c, rating)
    PROVE  SettingsInv'
<1>1. \A d \in Clients : Shown(d)'
  BY DEF SettingsInv, Config!FeedbackList, Config!FeedbackDelete, Config!FeedbackPut, Config!settings, Shown
<1>2. Config!DiskFaithful'
  BY DEF SettingsInv, Config!FeedbackList, Config!FeedbackDelete, Config!FeedbackPut, Config!settings,
     Config!DiskFaithful, Config!Corrupt, Config!Empty
<1>3. CASE Config!FeedbackList(c)
  BY <1>1, <1>2, <1>3 DEF SettingsInv, Config!FeedbackList, Config!settings, Heard, Config!NoItem
<1>4. CASE Config!FeedbackDelete(c)
  BY <1>1, <1>2, <1>4 DEF SettingsInv, Config!FeedbackDelete, Config!settings, Heard, Config!NoItem
<1>5. ASSUME NEW rating \in {"like", "dislike"}, Config!FeedbackPut(c, rating)
      PROVE  SettingsInv'
  <2>1. \A d \in Clients : Heard(d)'
    BY <1>5 DEF SettingsInv, Config!FeedbackPut, Heard, Config!NoItem
  <2>2. QED
    BY <1>1, <1>2, <1>5, <2>1 DEF SettingsInv, Config!FeedbackPut, Config!settings
<1>6. QED
  BY <1>3, <1>4, <1>5

LEMMA RequestStep ==
    ASSUME SettingsInv, NEW r \in Requesters,
           \/ \E kind \in ProviderKinds, i \in Ids : Config!ProviderStart(r, kind, i)
           \/ \E v \in Vals : Config!ProviderWrite(r, v) \/ Config!ProviderKey(r, v)
           \/ Config!ProviderActivate(r) \/ Config!ProviderLoad(r) \/ Config!ProviderSwap(r)
              \/ Config!ProviderUnset(r)
    PROVE  SettingsInv'
<1>1. CASE \E kind \in ProviderKinds, i \in Ids : Config!ProviderStart(r, kind, i)
  BY <1>1, OthersStep DEF Config!ProviderStart, Config!Rest
<1>2. ASSUME NEW v \in Vals, Config!ProviderWrite(r, v) PROVE SettingsInv'
  BY <1>2, CommitStep DEF Config!ProviderWrite, Config!Rest
<1>3. ASSUME NEW v \in Vals, Config!ProviderKey(r, v) PROVE SettingsInv'
  BY <1>3, OthersStep DEF Config!ProviderKey, Config!Rest
<1>4. CASE Config!ProviderActivate(r)
  BY <1>4, CommitStep DEF Config!ProviderActivate, Config!Rest
<1>5. CASE Config!ProviderLoad(r) \/ Config!ProviderSwap(r)
  BY <1>5, OthersStep DEF Config!ProviderLoad, Config!ProviderSwap, Config!Rest
<1>6. CASE Config!ProviderUnset(r)
  <2>1. CASE doc.active = call[r].id
    BY <1>6, <2>1, CommitStep DEF Config!ProviderUnset, Config!Rest
  <2>2. CASE doc.active # call[r].id
    BY <1>6, <2>2, OthersStep DEF Config!ProviderUnset, Config!Rest
  <2>3. QED
    BY <2>1, <2>2
<1>7. QED
  BY <1>1, <1>2, <1>3, <1>4, <1>5, <1>6

LEMMA SettingsStep == SettingsInv /\ [Config!Next]_Config!vars => SettingsInv'
<1> SUFFICES ASSUME SettingsInv, [Config!Next]_Config!vars PROVE SettingsInv'
  OBVIOUS
<1>1. ASSUME NEW c \in Clients, NEW i \in Ids, NEW v \in Vals, Config!MutateExpecting(c, i, v)
      PROVE  SettingsInv'
  BY <1>1, CommitStep DEF Config!MutateExpecting
<1>2. ASSUME NEW v \in Vals \cup {0}, Config!CredentialSet(v) PROVE SettingsInv'
  BY <1>2, OthersStep DEF Config!CredentialSet, Config!Rest
<1>3. CASE UNCHANGED Config!vars
  BY <1>3, OthersStep DEF Config!vars
<1>4. QED
  BY <1>1, <1>2, <1>3, DescribeStep, FeedbackStep, RestartStep, RequestStep DEF Config!Next

(* A client whose expectedRevision still matches was shown the section in   *)
(* force, and the settings in force are those on disk, for any clients,     *)
(* provider requests and restarts (Manager.Mutate of settings/settings.go,  *)
(* Store.Put of feedback/feedback.go).                                      *)
THEOREM SettingsStayTrue == Config!Spec => []SettingsTrue
<1>1. ASSUME Config!Init PROVE SettingsInv
  <2>1. Config!Corrupt # Config!Empty
    BY DEF Config!Corrupt, Config!Empty
  <2>2. Config!DiskFaithful
    BY <1>1, <2>1 DEF Config!Init, Config!DiskFaithful, Config!Loaded
  <2>3. QED
    BY <1>1, <2>2 DEF Config!Init, SettingsInv, Shown, Heard, Config!NoItem
<1>2. SettingsInv => Config!RevisionNamesContent /\ Config!DiskFaithful
  BY DEF SettingsInv, Shown, Heard, Config!RevisionNamesContent
<1>3. QED
  BY <1>1, <1>2, SettingsStep, PTL DEF Config!Spec, SettingsTrue

-----------------------------------------------------------------------------
(* Loops and sequences. *)

(* The loops of the code are recursive functions over 0 .. n, and their     *)
(* facts need induction: over the naturals, from the well-foundedness of < .*)
LEMMA SetInduction ==
    ASSUME NEW A \in SUBSET Nat, 0 \in A, \A n \in A : n + 1 \in A
    PROVE  A = Nat
<1> SUFFICES ASSUME Nat \ A # {} PROVE FALSE
  OBVIOUS
<1>1. PICK m \in Nat \ A : \A k \in Nat \ A : ~(<<k, m>> \in OpToRel(<, Nat))
  BY WFMin, NatLessThanWellFounded, Zenon
<1>2. \A k \in Nat \ A : ~(k < m)
  BY <1>1, Zenon DEF OpToRel
<1> HIDE DEF OpToRel
<1>3. m # 0 /\ m - 1 \in Nat
  BY <1>2
<1>4. m - 1 \in A
  BY <1>2, <1>3
<1>5. QED
  BY <1>3, <1>4

(* A loop of n rounds: it starts with base, and round i turns t into        *)
(* step[i][t].                                                              *)
IsLoop(F, base, step, n) ==
    /\ F = [i \in 0 .. n |-> F[i]]
    /\ F[0] = base /\ \A i \in 1 .. n : F[i] = step[i][F[i - 1]]

LEMMA LoopRuns ==
    ASSUME NEW T, NEW base \in T, NEW step \in [Nat -> [T -> T]]
    PROVE  \A n \in Nat : \E F : IsLoop(F, base, step, n) /\ \A i \in 0 .. n : F[i] \in T
<1> DEFINE A == {n \in Nat : \E F : IsLoop(F, base, step, n) /\ \A i \in 0 .. n : F[i] \in T}
<1>1. 0 \in A
  <2> DEFINE F == [i \in 0 .. 0 |-> base]
  <2>1. IsLoop(F, base, step, 0) /\ \A i \in 0 .. 0 : F[i] \in T
    BY DEF IsLoop
  <2>2. QED
    BY <2>1
<1>2. ASSUME NEW n \in A PROVE n + 1 \in A
  <2>1. PICK F : IsLoop(F, base, step, n) /\ \A i \in 0 .. n : F[i] \in T
    OBVIOUS
  <2> DEFINE last == step[n + 1][F[n]]
             G == [i \in 0 .. n + 1 |-> IF i = n + 1 THEN last ELSE F[i]]
  <2>2. n \in Nat /\ F[n] \in T /\ last \in T
    BY <2>1
  <2> HIDE DEF last
  <2>3. G[0] = base /\ \A i \in 0 .. n + 1 : G[i] \in T
    BY <2>1, <2>2 DEF IsLoop
  <2>4. ASSUME NEW i \in 1 .. n + 1 PROVE G[i] = step[i][G[i - 1]]
    <3>1. CASE i = n + 1
      BY <2>2, <3>1 DEF last
    <3>2. CASE i # n + 1
      <4>1. i \in 1 .. n /\ i - 1 \in 0 .. n + 1 /\ i - 1 # n + 1 /\ i \in 0 .. n + 1
        BY <2>2, <3>2
      <4>2. G[i] = F[i] /\ G[i - 1] = F[i - 1]
        BY <3>2, <4>1
      <4>3. QED
        BY <2>1, <4>1, <4>2 DEF IsLoop
    <3>3. QED
      BY <3>1, <3>2
  <2>5. G = [i \in 0 .. n + 1 |-> G[i]]
    OBVIOUS
  <2> HIDE DEF G
  <2>6. IsLoop(G, base, step, n + 1)
    <3>1. G[0] = base
      BY <2>3
    <3>2. QED
      BY <2>4, <2>5, <3>1, Zenon DEF IsLoop
  <2>7. QED
    BY <2>2, <2>3, <2>6
<1>3. A = Nat
  <2> HIDE DEF A
  <2>1. A \in SUBSET Nat
    BY DEF A
  <2>2. QED
    BY <1>1, <1>2, <2>1, SetInduction
<1>4. QED
  BY <1>3, Zenon

LEMMA NatMin ==
    ASSUME NEW S \in SUBSET Nat, S # {}
    PROVE  \E m \in S : \A k \in S : m <= k
<1>1. PICK m \in S : \A k \in S : ~(<<k, m>> \in OpToRel(<, Nat))
  BY WFMin, NatLessThanWellFounded, Zenon
<1>2. \A k \in S : ~(k < m)
  <2>1. SUFFICES ASSUME NEW k \in S, k < m PROVE FALSE
    OBVIOUS
  <2>2. k \in Nat /\ m \in Nat
    OBVIOUS
  <2>3. <<k, m>> \in OpToRel(<, Nat)
    BY <2>1, <2>2, Zenon DEF OpToRel
  <2>4. QED
    BY <1>1, <2>3, Zenon
<1>3. QED
  BY <1>2

LEMMA TailOf ==
    ASSUME NEW S, NEW q \in Seq(S), q # <<>>
    PROVE  /\ Tail(q) \in Seq(S) /\ Len(q) \in Nat \ {0} /\ Len(Tail(q)) = Len(q) - 1
           /\ DOMAIN q = 1 .. Len(q) /\ DOMAIN Tail(q) = 1 .. Len(q) - 1
           /\ \A i \in 1 .. Len(q) - 1 : Tail(q)[i] = q[i + 1] /\ i + 1 \in 1 .. Len(q)
           /\ Head(q) = q[1] /\ q[1] \in S /\ 1 \in DOMAIN q
OBVIOUS

LEMMA AppendOf ==
    ASSUME NEW S, NEW q \in Seq(S), NEW e \in S
    PROVE  /\ Append(q, e) \in Seq(S) /\ Len(q) \in Nat /\ Len(Append(q, e)) = Len(q) + 1
           /\ DOMAIN q = 1 .. Len(q) /\ DOMAIN Append(q, e) = 1 .. Len(q) + 1
           /\ \A i \in 1 .. Len(q) : Append(q, e)[i] = q[i]
           /\ Append(q, e)[Len(q) + 1] = e /\ Append(q, e) # <<>>
OBVIOUS

-----------------------------------------------------------------------------
(* DownlinkHub: frames on their way to the connections.                     *)

LEMMA ConcatOf ==
    ASSUME NEW S, NEW s \in Seq(S), NEW t \in Seq(S)
    PROVE  /\ s \o t \in Seq(S) /\ Len(s) \in Nat /\ Len(t) \in Nat /\ Len(s \o t) = Len(s) + Len(t)
           /\ DOMAIN (s \o t) = 1 .. Len(s) + Len(t) /\ DOMAIN s = 1 .. Len(s) /\ DOMAIN t = 1 .. Len(t)
           /\ \A i \in 1 .. Len(s) : (s \o t)[i] = s[i]
           /\ \A i \in 1 .. Len(t) : (s \o t)[Len(s) + i] = t[i]
           /\ \A i \in Len(s) + 1 .. Len(s) + Len(t) : (s \o t)[i] = t[i - Len(s)] /\ i - Len(s) \in 1 .. Len(t)
OBVIOUS

LEMMA SubSeqOf ==
    ASSUME NEW S, NEW s \in Seq(S), NEW k \in 1 .. Len(s) + 1
    PROVE  /\ SubSeq(s, k, Len(s)) \in Seq(S)
           /\ k # Len(s) + 1 => SubSeq(s, 1, k - 1) \in Seq(S) /\ SubSeq(s, k + 1, Len(s)) \in Seq(S)
OBVIOUS

-----------------------------------------------------------------------------
(* DownlinkHub: the frames on the wire, and a connection.                   *)
Notice == {Hub!NoticeFrame(n) : n \in Nat}
Frame == Notice \cup {Hub!EventFrame(n) : n \in Nat} \cup {Hub!PromptFrame(a) : a \in Calls}
                \cup {Hub!ResolvedFrame(a, o) : a \in Calls, o \in Hub!Outcomes}
Frames == Seq(Frame)
Numbers == Seq(Nat)
ConnType == [stage : {"new", "query", "finish", "reading", "ended"}, registered : BOOLEAN,
             buffering : BOOLEAN, buffer : Numbers, from : Nat, snapshot : Numbers, complete : BOOLEAN,
             queue : Frames, closed : BOOLEAN, failing : BOOLEAN, broken : BOOLEAN,
             writer : {"look", "wait", "done"}, token : BOOLEAN, got : Frames]

(* A connection knows stored events only, its writer sleeps only if its     *)
(* queue is empty, and an open one that registered is still registered.     *)
Below(s, top) == \A i \in DOMAIN s : s[i] < top
Within(f, top) == f[1] = "event" => f[2] < top

Sound(d, top) ==
    /\ d \in ConnType
    /\ d.failing => d.closed
    /\ d.writer = "wait" /\ ~d.token => d.queue = <<>> /\ (d.closed => \E n \in Oversized : n < top)
    /\ d.stage # "new" /\ ~d.closed => d.registered
    /\ d.from <= top /\ Below(d.buffer, top) /\ Below(d.snapshot, top)

(* NoSilentGap of one connection, for the events on the way to the hub.     *)
Covered(d, top, way) ==
    d.stage \in {"finish", "reading"} /\ ~d.closed /\ d.complete =>
        \A n \in d.from .. top - 1 :
            \/ n \in way
            \/ \E i \in DOMAIN d.snapshot : d.snapshot[i] = n
            \/ \E i \in DOMAIN d.buffer : d.buffer[i] = n
            \/ \E i \in DOMAIN d.queue : d.queue[i] = Hub!EventFrame(n)
            \/ \E i \in DOMAIN d.got : d.got[i] = Hub!EventFrame(n)

(* What a connection was told, and will be: one resolution of a call, and a *)
(* final one.                                                               *)
Said(d) == d.got \o d.queue
Tells(d, final) ==
    \A i \in DOMAIN Said(d) : Said(d)[i][1] = "resolved" =>
        /\ Said(d)[i] \in final
        /\ \A j \in DOMAIN Said(d) : Said(d)[j][1] = "resolved" /\ Said(d)[j][2] = Said(d)[i][2] => i = j

(* The events that the hub has still to get, or never will.                 *)
Way == inflight \cup {channel[i] : i \in DOMAIN channel} \cup {hand[i] : i \in DOMAIN hand} \cup shed

(* Outcome o of call a was broadcast: nobody else can resolve a any more,   *)
(* and o is the answer or the timeout askApproval returns.                  *)
Final(a, o) ==
    /\ ask[a] # "new" /\ a \notin pending /\ \A p \in Hub!Outcomes \cup {"cancel"} : <<a, p>> \notin resolver
    /\ o \in Hub!Decisions => answer[a] = o
    /\ o = "timeout" => decided[a] = "timeout"
Finals == {f \in {Hub!ResolvedFrame(a, o) : a \in Calls, o \in Hub!Outcomes} : Final(f[2], f[3])}

(* The session, its pump and what is kept for later connections.            *)
SessionInv ==
    /\ stored \in Nat /\ inflight \subseteq 0 .. stored - 1 /\ channel \in Numbers /\ Below(channel, stored)
    /\ hand = <<>> \/ \E n \in 0 .. stored - 1 : hand = <<n>>
    /\ staged \in Seq(Calls) /\ backlog \in Seq(Notice) /\ notices \in Nat

(* The contenders for one call: a call that is pending has no answer, no    *)
(* outcome and no resolver; afterwards whoever took it out of the pending   *)
(* calls is the only resolver, and resolves it as askApproval returns.      *)
Settled(a) ==
    /\ ask[a] = "new" => /\ a \notin pending /\ answer[a] = "none" /\ decided[a] = "none"
                         /\ \A o \in Hub!Outcomes \cup {"cancel"} : <<a, o>> \notin resolver
    /\ a \in pending => /\ answer[a] = "none" /\ decided[a] = "none"
                        /\ \A o \in Hub!Outcomes \cup {"cancel"} : <<a, o>> \notin resolver
    /\ decided[a] # "none" => ask[a] = "returned"
    /\ decided[a] = "timeout" => answer[a] = "none" /\ <<a, "cancel">> \notin resolver
    /\ decided[a] \notin {"none", "timeout"} => answer[a] = decided[a]
    /\ \A o, p \in Hub!Outcomes \cup {"cancel"} : <<a, o>> \in resolver /\ <<a, p>> \in resolver => o = p
    /\ \A o \in Hub!Decisions : <<a, o>> \in resolver => answer[a] = o
    /\ <<a, "timeout">> \in resolver => decided[a] = "timeout"
    /\ <<a, "cancel">> \in resolver => answer[a] = "none"

(* The calls.                                                               *)
ApprovalsInv ==
    /\ ask \in [Calls -> {"new", "stage", "broadcast", "wait", "receive", "returned"}]
    /\ pending \subseteq Calls /\ answer \in [Calls -> Hub!Decisions \cup {"none"}]
    /\ resolver \subseteq Calls \X (Hub!Outcomes \cup {"cancel"})
    /\ decided \in [Calls -> Hub!Outcomes \cup {"none"}]
    /\ \A a \in Calls : Settled(a)

(* The connections.                                                         *)
ConnsInv ==
    /\ conn \in [Hub!Conns -> ConnType]
    /\ \A c \in Hub!Conns : Sound(conn[c], stored) /\ Tells(conn[c], Finals)
    /\ \A c \in MuxConns : Covered(conn[c], stored, Way)

HubInv == SessionInv /\ ApprovalsInv /\ ConnsInv
-----------------------------------------------------------------------------
(* How enqueue changes a connection: e is d with some of F appended.        *)
Same(e, d) ==
    /\ e.stage = d.stage /\ e.registered = d.registered /\ e.buffering = d.buffering /\ e.buffer = d.buffer
    /\ e.from = d.from /\ e.snapshot = d.snapshot /\ e.complete = d.complete /\ e.broken = d.broken
    /\ e.writer = d.writer /\ e.got = d.got
Longer(e, d, F) ==
    /\ Same(e, d)
    /\ d.closed => e.closed
    /\ Len(d.queue) <= Len(e.queue)
    /\ \A i \in 1 .. Len(d.queue) : e.queue[i] = d.queue[i]
    /\ \A i \in Len(d.queue) + 1 .. Len(e.queue) : e.queue[i] \in F
    /\ ~e.closed => \A f \in F : \E i \in 1 .. Len(e.queue) : e.queue[i] = f

LEMMA QueueLen == ASSUME NEW d \in ConnType
                  PROVE  /\ d.queue \in Seq(Frame) /\ d.got \in Seq(Frame)
                         /\ Len(d.queue) \in Nat /\ DOMAIN d.queue = 1 .. Len(d.queue)
                         /\ Len(d.got) \in Nat /\ DOMAIN d.got = 1 .. Len(d.got)
<1>1. d.queue \in Frames /\ d.got \in Frames
  BY DEF ConnType
<1>2. QED
  BY <1>1 DEF Frames

LEMMA EnqueueTyped ==
    ASSUME NEW d \in ConnType, NEW f \in Frame
    PROVE  /\ Hub!Enqueue(d, f) \in ConnType
           /\ \/ d.closed /\ Hub!Enqueue(d, f) = d
              \/ /\ ~d.closed /\ (Len(d.queue) >= QueueMax \/ Hub!FrameTooLarge(f))
                 /\ Hub!Enqueue(d, f) = [d EXCEPT !.closed = TRUE, !.failing = TRUE]
              \/ ~d.closed /\ Hub!Enqueue(d, f) = [d EXCEPT !.queue = Append(d.queue, f), !.token = TRUE]
<1>1. d.queue \in Seq(Frame)
  BY QueueLen
<1>2. Append(d.queue, f) \in Frames
  BY <1>1, AppendOf DEF Frames
<1> DEFINE q == Append(d.queue, f)
<1>3. q \in Frames
  BY <1>2
<1>4. Hub!Enqueue(d, f) = IF d.closed THEN d
                          ELSE IF Len(d.queue) >= QueueMax \/ Hub!FrameTooLarge(f)
                          THEN [d EXCEPT !.closed = TRUE, !.failing = TRUE]
                          ELSE [d EXCEPT !.queue = q, !.token = TRUE]
  BY DEF Hub!Enqueue
<1> HIDE DEF q
<1>5. [d EXCEPT !.closed = TRUE, !.failing = TRUE] \in ConnType
      /\ [d EXCEPT !.queue = q, !.token = TRUE] \in ConnType
  BY <1>3 DEF ConnType
<1>6. QED
  BY <1>4, <1>5 DEF q

LEMMA EnqueueSound ==
    ASSUME NEW top \in Nat, NEW d, Sound(d, top), NEW f \in Frame, Within(f, top)
    PROVE  Sound(Hub!Enqueue(d, f), top) /\ Longer(Hub!Enqueue(d, f), d, {f})
<1>1. d \in ConnType
  BY DEF Sound
<1>2. d.queue \in Seq(Frame) /\ Len(d.queue) \in Nat
  BY <1>1, QueueLen
<1> DEFINE e == Hub!Enqueue(d, f)
           q == Append(d.queue, f)
<1>3. e \in ConnType
  BY <1>1, EnqueueTyped
<1>4. CASE e = d /\ d.closed
  BY <1>2, <1>4 DEF Longer, Same, Sound
<1>5. CASE /\ ~d.closed /\ (Len(d.queue) >= QueueMax \/ Hub!FrameTooLarge(f))
           /\ e = [d EXCEPT !.closed = TRUE, !.failing = TRUE]
  <2>1. Same(e, d) /\ e.closed /\ e.failing /\ e.queue = d.queue /\ e.token = d.token
    BY <1>1, <1>5 DEF ConnType, Same
  <2>2. d.writer = "wait" /\ ~d.token => \E n \in Oversized : n < top
    <3>1. d.queue = <<>> => Len(d.queue) = 0
      OBVIOUS
    <3>2. SUFFICES ASSUME d.writer = "wait", ~d.token PROVE Hub!FrameTooLarge(f)
      BY DEF Hub!FrameTooLarge, Within
    <3>3. QED
      BY <1>5, <3>1, <3>2, LimitsAssumption DEF Sound
  <2>3. QED
    BY <1>2, <1>3, <2>1, <2>2 DEF Longer, Same, Sound
<1>6. CASE ~d.closed /\ e = [d EXCEPT !.queue = q, !.token = TRUE]
  <2>1. Len(q) = Len(d.queue) + 1 /\ (\A i \in 1 .. Len(d.queue) : q[i] = d.queue[i]) /\ q[Len(d.queue) + 1] = f
    BY <1>2, AppendOf
  <2> HIDE DEF q
  <2>2. Same(e, d) /\ e.closed = d.closed /\ e.failing = d.failing /\ e.queue = q /\ e.token
    BY <1>1, <1>6 DEF ConnType, Same
  <2> HIDE DEF e
  <2>3. Longer(e, d, {f})
    BY <1>2, <1>6, <2>1, <2>2 DEF Longer
  <2>4. QED
    BY <1>3, <1>6, <2>2, <2>3 DEF Same, Sound, e
<1>7. QED
  BY <1>1, <1>4, <1>5, <1>6, EnqueueTyped

LEMMA LongerOnce ==
    ASSUME NEW d, NEW e \in ConnType, NEW g \in ConnType, NEW F, NEW G, d \in ConnType,
           Longer(e, d, F), Longer(g, e, G)
    PROVE  Longer(g, d, F \cup G)
<1>1. Len(d.queue) \in Nat /\ Len(e.queue) \in Nat /\ Len(g.queue) \in Nat
  BY QueueLen
<1>2. Same(g, d) /\ (d.closed => g.closed) /\ (e.closed => g.closed)
  BY DEF Longer, Same
<1>3. Len(d.queue) <= Len(e.queue) /\ Len(e.queue) <= Len(g.queue)
  BY DEF Longer
<1>4. \A i \in 1 .. Len(d.queue) : g.queue[i] = d.queue[i]
  BY <1>1, <1>3 DEF Longer
<1>5. \A i \in Len(d.queue) + 1 .. Len(g.queue) : g.queue[i] \in F \cup G
  <2>1. SUFFICES ASSUME NEW i \in Len(d.queue) + 1 .. Len(g.queue) PROVE g.queue[i] \in F \cup G
    OBVIOUS
  <2>2. CASE i <= Len(e.queue)
    BY <1>1, <1>3, <2>1, <2>2 DEF Longer
  <2>3. CASE i > Len(e.queue)
    BY <1>1, <1>3, <2>1, <2>3 DEF Longer
  <2>4. QED
    BY <1>1, <2>2, <2>3
<1>6. ASSUME ~g.closed, NEW f \in F \cup G PROVE \E i \in 1 .. Len(g.queue) : g.queue[i] = f
  <2>1. CASE f \in F
    <3>1. PICK i \in 1 .. Len(e.queue) : e.queue[i] = f
      BY <1>2, <1>6, <2>1 DEF Longer
    <3>2. g.queue[i] = f /\ i \in 1 .. Len(g.queue)
      BY <1>1, <1>3, <3>1 DEF Longer
    <3>3. QED
      BY <3>2
  <2>2. CASE f \in G
    BY <1>6, <2>2 DEF Longer
  <2>3. QED
    BY <2>1, <2>2
<1>7. QED
  BY <1>1, <1>2, <1>3, <1>4, <1>5, <1>6 DEF Longer

LEMMA EnqueueAllSound ==
    ASSUME NEW top \in Nat, NEW d, Sound(d, top), NEW s \in Seq(Frame), \A i \in DOMAIN s : Within(s[i], top)
    PROVE  Sound(Hub!EnqueueAll(d, s), top) /\ Longer(Hub!EnqueueAll(d, s), d, {s[i] : i \in DOMAIN s})
<1> DEFINE T == ConnType
           step == [n \in Nat |-> [t \in T |-> IF n \in 1 .. Len(s) THEN Hub!Enqueue(t, s[n]) ELSE t]]
           after == CHOOSE F : F = [n \in 0 .. Len(s) |-> IF n = 0 THEN d ELSE Hub!Enqueue(F[n - 1], s[n])]
<1>1. Len(s) \in Nat /\ DOMAIN s = 1 .. Len(s) /\ \A n \in 1 .. Len(s) : s[n] \in Frame
  OBVIOUS
<1>2. step \in [Nat -> [T -> T]]
  <2>1. \A n \in Nat, t \in T : n \in 1 .. Len(s) => Hub!Enqueue(t, s[n]) \in T
    BY <1>1, EnqueueTyped
  <2> HIDE DEF T
  <2>2. QED
    BY <2>1
<1>3. d \in T
  BY DEF Sound
<1>4. PICK F : IsLoop(F, d, step, Len(s)) /\ \A n \in 0 .. Len(s) : F[n] \in T
  <2> HIDE DEF T, step
  <2>1. QED
    BY <1>1, <1>2, <1>3, LoopRuns
<1> DEFINE Round(G, n) == IF n = 0 THEN d ELSE Hub!Enqueue(G[n - 1], s[n])
<1>5. F = [n \in 0 .. Len(s) |-> Round(F, n)]
  <2>1. F[0] = d
    BY <1>4, Zenon DEF IsLoop
  <2>2. ASSUME NEW n \in 0 .. Len(s), n # 0 PROVE F[n] = Round(F, n)
    <3>1. n \in 1 .. Len(s) /\ n - 1 \in 0 .. Len(s) /\ n \in Nat
      BY <1>1, <2>2
    <3>2. F[n] = step[n][F[n - 1]] /\ F[n - 1] \in T
      BY <1>4, <3>1, Zenon DEF IsLoop
    <3> HIDE DEF T
    <3>3. QED
      BY <2>2, <3>1, <3>2
  <2>3. F = [n \in 0 .. Len(s) |-> F[n]]
    BY <1>4, Zenon DEF IsLoop
  <2>4. \A n \in 0 .. Len(s) : F[n] = Round(F, n)
    BY <2>1, <2>2
  <2> HIDE DEF Round
  <2>5. [n \in 0 .. Len(s) |-> F[n]] = [n \in 0 .. Len(s) |-> Round(F, n)]
    BY <2>4, Zenon
  <2>6. QED
    BY <2>3, <2>5, Zenon
<1>6. after = [n \in 0 .. Len(s) |-> Round(after, n)]
  BY <1>5, Zenon
<1>7. Hub!EnqueueAll(d, s) = after[Len(s)]
  BY DEF Hub!EnqueueAll
<1> DEFINE Sent(n) == {s[i] : i \in 1 .. n}
           Done(n) == Sound(after[n], top) /\ Longer(after[n], d, Sent(n))
           A == {n \in Nat : n <= Len(s) => Done(n)}
<1>8. 0 \in A
  <2> HIDE DEF after
  <2>1. after[0] = d
    BY <1>1, <1>6
  <2>2. Len(d.queue) \in Nat
    BY <1>3, QueueLen
  <2>3. Longer(d, d, Sent(0))
    BY <2>2 DEF Longer, Same
  <2>4. QED
    BY <2>1, <2>3
<1>9. ASSUME NEW n \in A, n + 1 <= Len(s) PROVE Done(n + 1)
  <2> HIDE DEF after
  <2>1. n \in Nat /\ n + 1 \in 1 .. Len(s) /\ n + 1 \in 0 .. Len(s) /\ n + 1 # 0 /\ (n + 1) - 1 = n /\ n <= Len(s)
    BY <1>1, <1>9
  <2>2. Done(n)
    BY <2>1
  <2>3. after[n + 1] = Hub!Enqueue(after[n], s[n + 1])
    BY <1>6, <2>1
  <2>4. s[n + 1] \in Frame /\ Within(s[n + 1], top)
    BY <1>1, <2>1
  <2> DEFINE e == after[n]
             f == s[n + 1]
             g == Hub!Enqueue(e, f)
  <2>5. Sound(e, top) /\ Longer(e, d, Sent(n))
    BY <2>2
  <2>6. Sound(g, top) /\ Longer(g, e, {f})
    <3> HIDE DEF e, f
    <3>1. f \in Frame /\ Within(f, top)
      BY <2>4 DEF f
    <3>2. QED
      BY <2>5, <3>1, EnqueueSound
  <2>7. Longer(g, d, Sent(n) \cup {f})
    <3> HIDE DEF e, f, g, Sent
    <3>1. e \in ConnType /\ g \in ConnType /\ d \in ConnType
      BY <1>3, <2>5, <2>6 DEF Sound
    <3>2. QED
      BY <2>5, <2>6, <3>1, LongerOnce
  <2>8. Sent(n + 1) = Sent(n) \cup {f}
    <3>1. \A i \in 1 .. n + 1 : i \in 1 .. n \/ i = n + 1
      BY <2>1
    <3>2. \A i \in 1 .. n : i \in 1 .. n + 1
      BY <2>1
    <3>3. n + 1 \in 1 .. n + 1
      BY <2>1
    <3>4. QED
      BY <3>1, <3>2, <3>3
  <2> HIDE DEF Sent, f, e
  <2>9. QED
    BY <2>3, <2>6, <2>7, <2>8 DEF e, f
<1>10. A = Nat
  <2>1. A \in SUBSET Nat
    OBVIOUS
  <2>2. \A n \in A : n + 1 \in A
    <3> HIDE DEF Done
    <3>1. QED
      BY <1>9
  <2> HIDE DEF A
  <2>3. QED
    BY <1>8, <2>1, <2>2, SetInduction
<1>11. Done(Len(s))
  <2> HIDE DEF Done
  <2>1. QED
    BY <1>1, <1>10
<1>12. QED
  <2>1. Sent(Len(s)) = {s[i] : i \in DOMAIN s}
    BY <1>1
  <2> HIDE DEF after, Sent
  <2>2. QED
    BY <1>7, <1>11, <2>1

Elems(s) == {s[i] : i \in DOMAIN s}

LEMMA DeduplicateKeeps ==
    ASSUME NEW s \in Seq(Nat)
    PROVE  Hub!Deduplicate(s) \in Seq(Nat) /\ Elems(Hub!Deduplicate(s)) = Elems(s)
<1> DEFINE T == Seq(Nat)
           Next1(t, x) == IF x > 0 /\ Hub!Contains(t, x) THEN t ELSE Append(t, x)
           step == [n \in Nat |-> [t \in T |-> IF n \in 1 .. Len(s) THEN Next1(t, s[n]) ELSE t]]
           out == CHOOSE F : F = [n \in 0 .. Len(s) |-> IF n = 0 THEN <<>>
                                     ELSE IF s[n] > 0 /\ Hub!Contains(F[n - 1], s[n]) THEN F[n - 1]
                                     ELSE Append(F[n - 1], s[n])]
<1>1. Len(s) \in Nat /\ DOMAIN s = 1 .. Len(s) /\ \A n \in 1 .. Len(s) : s[n] \in Nat
  OBVIOUS
<1>2. step \in [Nat -> [T -> T]]
  <2>1. \A n \in Nat, t \in T : n \in 1 .. Len(s) => Next1(t, s[n]) \in T
    BY <1>1
  <2> HIDE DEF T, Next1
  <2>2. QED
    BY <2>1
<1>3. <<>> \in T
  OBVIOUS
<1>4. PICK F : IsLoop(F, <<>>, step, Len(s)) /\ \A n \in 0 .. Len(s) : F[n] \in T
  <2> HIDE DEF T, step
  <2>1. QED
    BY <1>1, <1>2, <1>3, LoopRuns
<1> DEFINE Round(G, n) == IF n = 0 THEN <<>>
                          ELSE IF s[n] > 0 /\ Hub!Contains(G[n - 1], s[n]) THEN G[n - 1] ELSE Append(G[n - 1], s[n])
<1>5. F = [n \in 0 .. Len(s) |-> Round(F, n)]
  <2>1. F[0] = <<>>
    BY <1>4, Zenon DEF IsLoop
  <2>2. ASSUME NEW n \in 0 .. Len(s), n # 0 PROVE F[n] = Round(F, n)
    <3>1. n \in 1 .. Len(s) /\ n - 1 \in 0 .. Len(s) /\ n \in Nat
      BY <1>1, <2>2
    <3>2. F[n] = step[n][F[n - 1]] /\ F[n - 1] \in T
      BY <1>4, <3>1, Zenon DEF IsLoop
    <3> HIDE DEF T
    <3>3. QED
      BY <2>2, <3>1, <3>2
  <2>3. F = [n \in 0 .. Len(s) |-> F[n]]
    BY <1>4, Zenon DEF IsLoop
  <2>4. \A n \in 0 .. Len(s) : F[n] = Round(F, n)
    BY <2>1, <2>2
  <2> HIDE DEF Round
  <2>5. [n \in 0 .. Len(s) |-> F[n]] = [n \in 0 .. Len(s) |-> Round(F, n)]
    BY <2>4, Zenon
  <2>6. QED
    BY <2>3, <2>5, Zenon
<1>6. out = [n \in 0 .. Len(s) |-> Round(out, n)]
  BY <1>5, Zenon
<1>7. Hub!Deduplicate(s) = out[Len(s)]
  BY DEF Hub!Deduplicate
<1> DEFINE First(n) == {s[i] : i \in 1 .. n}
           Done(n) == out[n] \in Seq(Nat) /\ Elems(out[n]) = First(n)
           A == {n \in Nat : n <= Len(s) => Done(n)}
<1>8. 0 \in A
  <2> HIDE DEF out
  <2>1. out[0] = <<>>
    BY <1>1, <1>6
  <2>2. <<>> \in Seq(Nat) /\ DOMAIN <<>> = {} /\ 1 .. 0 = {}
    OBVIOUS
  <2>3. Elems(<<>>) = {} /\ First(0) = {}
    BY <2>2 DEF Elems
  <2>4. Done(0)
    <3> HIDE DEF First
    <3>1. QED
      BY <2>1, <2>2, <2>3
  <2> HIDE DEF Done
  <2>5. QED
    BY <2>4
<1>9. ASSUME NEW n \in A, n + 1 <= Len(s) PROVE Done(n + 1)
  <2> HIDE DEF out
  <2>1. n \in Nat /\ n + 1 \in 1 .. Len(s) /\ n + 1 \in 0 .. Len(s) /\ n + 1 # 0 /\ (n + 1) - 1 = n /\ n <= Len(s)
    BY <1>1, <1>9
  <2> DEFINE t == out[n]
             x == s[n + 1]
  <2>2. t \in Seq(Nat) /\ Elems(t) = First(n)
    BY <2>1
  <2>3. out[n + 1] = Next1(t, x)
    BY <1>6, <2>1
  <2>4. x \in Nat
    BY <1>1, <2>1
  <2>5. First(n + 1) = First(n) \cup {x}
    <3>1. \A i \in 1 .. n + 1 : i \in 1 .. n \/ i = n + 1
      BY <2>1
    <3>2. \A i \in 1 .. n : i \in 1 .. n + 1
      BY <2>1
    <3>3. n + 1 \in 1 .. n + 1
      BY <2>1
    <3>4. QED
      BY <3>1, <3>2, <3>3
  <2> HIDE DEF First, t, x
  <2>6. CASE Hub!Contains(t, x) /\ out[n + 1] = t
    <3>1. x \in Elems(t)
      BY <2>2, <2>6 DEF Hub!Contains, Elems
    <3>2. QED
      BY <2>2, <2>5, <2>6, <3>1
  <2>7. CASE out[n + 1] = Append(t, x)
    <3>1. /\ Append(t, x) \in Seq(Nat) /\ Len(t) \in Nat
          /\ DOMAIN t = 1 .. Len(t) /\ DOMAIN Append(t, x) = 1 .. Len(t) + 1
          /\ \A i \in 1 .. Len(t) : Append(t, x)[i] = t[i]
          /\ Append(t, x)[Len(t) + 1] = x
      BY <2>2, <2>4, AppendOf
    <3> DEFINE u == Append(t, x)
    <3> HIDE DEF u
    <3>2. Elems(u) = Elems(t) \cup {x}
      <4>1. /\ Len(t) \in Nat /\ DOMAIN t = 1 .. Len(t) /\ DOMAIN u = 1 .. Len(t) + 1
            /\ (\A i \in 1 .. Len(t) : u[i] = t[i]) /\ u[Len(t) + 1] = x
        BY <3>1 DEF u
      <4>2. \A i \in 1 .. Len(t) + 1 : i \in 1 .. Len(t) \/ i = Len(t) + 1
        BY <4>1
      <4>3. \A i \in 1 .. Len(t) : i \in 1 .. Len(t) + 1
        BY <4>1
      <4>4. Len(t) + 1 \in 1 .. Len(t) + 1
        BY <4>1
      <4>5. QED
        BY <4>1, <4>2, <4>3, <4>4 DEF Elems
    <3>3. QED
      BY <2>2, <2>5, <2>7, <3>1, <3>2 DEF u
  <2>8. QED
    BY <2>3, <2>6, <2>7
<1>10. A = Nat
  <2>1. A \in SUBSET Nat
    OBVIOUS
  <2>2. \A n \in A : n + 1 \in A
    <3> HIDE DEF Done
    <3>1. QED
      BY <1>9
  <2> HIDE DEF A
  <2>3. QED
    BY <1>8, <2>1, <2>2, SetInduction
<1>11. Done(Len(s))
  <2> HIDE DEF Done
  <2>1. QED
    BY <1>1, <1>10
<1>12. QED
  <2>1. First(Len(s)) = Elems(s)
    BY <1>1 DEF Elems
  <2> HIDE DEF out, First
  <2>2. QED
    BY <1>7, <1>11, <2>1

-----------------------------------------------------------------------------
(* What a longer queue keeps.                                               *)
LEMMA LongerCovers ==
    ASSUME NEW top, NEW way, NEW d \in ConnType, NEW e \in ConnType, NEW F, Longer(e, d, F), Covered(d, top, way)
    PROVE  Covered(e, top, way)
<1>1. SUFFICES ASSUME e.stage \in {"finish", "reading"}, ~e.closed, e.complete, NEW n \in e.from .. top - 1
               PROVE  \/ n \in way
                      \/ \E i \in DOMAIN e.snapshot : e.snapshot[i] = n
                      \/ \E i \in DOMAIN e.buffer : e.buffer[i] = n
                      \/ \E i \in DOMAIN e.queue : e.queue[i] = Hub!EventFrame(n)
                      \/ \E i \in DOMAIN e.got : e.got[i] = Hub!EventFrame(n)
  BY DEF Covered
<1>2. \/ n \in way
      \/ \E i \in DOMAIN d.snapshot : d.snapshot[i] = n
      \/ \E i \in DOMAIN d.buffer : d.buffer[i] = n
      \/ \E i \in DOMAIN d.queue : d.queue[i] = Hub!EventFrame(n)
      \/ \E i \in DOMAIN d.got : d.got[i] = Hub!EventFrame(n)
  BY <1>1 DEF Covered, Longer, Same
<1>3. ASSUME NEW i \in DOMAIN d.queue, d.queue[i] = Hub!EventFrame(n)
             PROVE i \in DOMAIN e.queue /\ e.queue[i] = Hub!EventFrame(n)
  <2>1. DOMAIN d.queue = 1 .. Len(d.queue) /\ DOMAIN e.queue = 1 .. Len(e.queue) /\ Len(d.queue) \in Nat
        /\ Len(e.queue) \in Nat
    BY QueueLen
  <2>2. QED
    BY <1>3, <2>1 DEF Longer
<1>4. QED
  BY <1>2, <1>3 DEF Longer, Same

LEMMA SaidOf ==
    ASSUME NEW d \in ConnType
    PROVE  /\ d.got \in Seq(Frame) /\ d.queue \in Seq(Frame) /\ Said(d) \in Seq(Frame)
           /\ DOMAIN Said(d) = 1 .. Len(Said(d)) /\ Len(Said(d)) \in Nat
<1>1. d.got \in Seq(Frame) /\ d.queue \in Seq(Frame)
  BY QueueLen
<1> DEFINE g == d.got
           q == d.queue
<1>2. g \in Seq(Frame) /\ q \in Seq(Frame)
  BY <1>1
<1>3. Said(d) = g \o q
  BY DEF Said
<1> HIDE DEF g, q
<1>4. g \o q \in Seq(Frame)
  BY <1>2
<1>5. Said(d) \in Seq(Frame)
  BY <1>3, <1>4
<1> HIDE DEF Said
<1>6. DOMAIN Said(d) = 1 .. Len(Said(d)) /\ Len(Said(d)) \in Nat
  BY <1>5
<1>7. QED
  BY <1>1, <1>5, <1>6

(* Where a frame of a longer queue was before.                              *)
LEMMA Before ==
    ASSUME NEW S, NEW g \in Seq(S), NEW q \in Seq(S), NEW r \in Seq(S), Len(q) <= Len(r),
           \A i \in 1 .. Len(q) : r[i] = q[i], NEW i \in DOMAIN (g \o r)
    PROVE  \/ i \in DOMAIN (g \o q) /\ (g \o q)[i] = (g \o r)[i]
           \/ /\ i - Len(g) \in Len(q) + 1 .. Len(r) /\ (g \o r)[i] = r[i - Len(g)]
<1>1. Len(g) \in Nat /\ Len(q) \in Nat /\ Len(r) \in Nat
  OBVIOUS
<1>2. DOMAIN (g \o r) = 1 .. Len(g) + Len(r) /\ DOMAIN (g \o q) = 1 .. Len(g) + Len(q)
  OBVIOUS
<1>3. CASE i \in 1 .. Len(g)
  <2>1. (g \o q)[i] = g[i] /\ (g \o r)[i] = g[i]
    BY <1>3
  <2>2. QED
    BY <1>1, <1>2, <1>3, <2>1
<1>4. CASE i \in Len(g) + 1 .. Len(g) + Len(r)
  <2>1. (g \o r)[i] = r[i - Len(g)] /\ i - Len(g) \in 1 .. Len(r)
    BY <1>1, <1>4
  <2>2. CASE i - Len(g) \in 1 .. Len(q)
    <3>1. i \in DOMAIN (g \o q) /\ (g \o q)[i] = q[i - Len(g)]
      BY <1>1, <1>2, <1>4, <2>2
    <3>2. QED
      BY <2>1, <2>2, <3>1
  <2>3. CASE i - Len(g) \notin 1 .. Len(q)
    <3>1. i - Len(g) \in Len(q) + 1 .. Len(r)
      BY <1>1, <1>4, <2>1, <2>3
    <3>2. QED
      BY <2>1, <3>1
  <2>4. QED
    BY <2>2, <2>3
<1>5. QED
  BY <1>1, <1>2, <1>3, <1>4

(* No resolved frame among the new ones: nothing is told a second time.     *)
LEMMA LongerTells ==
    ASSUME NEW final, NEW d \in ConnType, NEW e \in ConnType, NEW F, Longer(e, d, F), Tells(d, final),
           \A f \in F : f[1] # "resolved"
    PROVE  Tells(e, final)
<1> DEFINE g == d.got
           q == d.queue
           r == e.queue
<1>1. Said(e) = g \o r /\ Said(d) = g \o q /\ g \in Seq(Frame) /\ q \in Seq(Frame) /\ r \in Seq(Frame)
  <2>1. e.got = d.got
    BY DEF Longer, Same
  <2>2. QED
    BY <2>1, SaidOf DEF Said
<1>2. /\ Len(q) <= Len(r) /\ \A i \in 1 .. Len(q) : r[i] = q[i]
      /\ \A i \in Len(q) + 1 .. Len(r) : r[i][1] # "resolved"
  BY DEF Longer
<1> HIDE DEF g, q, r
<1>3. ASSUME NEW i \in DOMAIN Said(e), Said(e)[i][1] = "resolved"
      PROVE  i \in DOMAIN Said(d) /\ Said(d)[i] = Said(e)[i]
  <2>1. i \in DOMAIN (g \o r)
    BY <1>1, <1>3
  <2>2. \/ i \in DOMAIN (g \o q) /\ (g \o q)[i] = (g \o r)[i]
        \/ i - Len(g) \in Len(q) + 1 .. Len(r) /\ (g \o r)[i] = r[i - Len(g)]
    BY <1>1, <1>2, <2>1, Before
  <2> DEFINE k == i - Len(g)
  <2> HIDE DEF k, Said
  <2>3. QED
    BY <1>1, <1>2, <1>3, <2>2, Zenon DEF k
<1>4. QED
  BY <1>3 DEF Tells

(* A resolved frame of a call nobody was told about.                        *)
LEMMA ResolvedTells ==
    ASSUME NEW final, NEW d \in ConnType, NEW e \in ConnType, NEW f, Longer(e, d, {f}),
           Len(e.queue) <= Len(d.queue) + 1,
           Tells(d, final), f \in final, \A i \in DOMAIN Said(d) : Said(d)[i][1] = "resolved"
           => Said(d)[i][2] # f[2]
    PROVE  Tells(e, final)
<1> DEFINE g == d.got
           q == d.queue
           r == e.queue
<1>1. Said(e) = g \o r /\ Said(d) = g \o q /\ g \in Seq(Frame) /\ q \in Seq(Frame) /\ r \in Seq(Frame)
  <2>1. e.got = d.got
    BY DEF Longer, Same
  <2>2. QED
    BY <2>1, SaidOf DEF Said
<1>2. /\ Len(q) <= Len(r) /\ \A i \in 1 .. Len(q) : r[i] = q[i]
      /\ \A i \in Len(q) + 1 .. Len(r) : r[i] = f
      /\ Len(r) <= Len(q) + 1
  BY DEF Longer
<1> HIDE DEF g, q, r
<1> DEFINE last == Len(g) + Len(q) + 1
<1>3. ASSUME NEW i \in DOMAIN Said(e)
      PROVE  \/ i = last /\ Said(e)[i] = f
             \/ i \in DOMAIN Said(d) /\ Said(d)[i] = Said(e)[i]
  <2>1. i \in DOMAIN (g \o r)
    BY <1>1, <1>3
  <2>2. \/ i \in DOMAIN (g \o q) /\ (g \o q)[i] = (g \o r)[i]
        \/ i - Len(g) \in Len(q) + 1 .. Len(r) /\ (g \o r)[i] = r[i - Len(g)]
    BY <1>1, <1>2, <2>1, Before
  <2>3. CASE i \in DOMAIN (g \o q) /\ (g \o q)[i] = (g \o r)[i]
    BY <1>1, <2>3
  <2>4. CASE i - Len(g) \in Len(q) + 1 .. Len(r) /\ (g \o r)[i] = r[i - Len(g)]
    <3>1. (g \o r)[i] = f
      BY <1>2, <2>4
    <3>2. Len(g) \in Nat /\ Len(q) \in Nat /\ Len(r) \in Nat /\ DOMAIN (g \o r) = 1 .. Len(g) + Len(r)
      BY <1>1
    <3> DEFINE n == Len(g)
               m == Len(q)
               k == Len(r)
    <3>3. n \in Nat /\ m \in Nat /\ k \in Nat /\ k <= m + 1 /\ i \in 1 .. n + k /\ i - n \in m + 1 .. k
      BY <1>2, <2>1, <2>4, <3>2
    <3>4. i = last
      <4> HIDE DEF n, m, k
      <4>1. i = n + m + 1
        BY <3>3
      <4>2. QED
        BY <4>1 DEF n, m
    <3>5. Said(e)[i] = f
      BY <1>1, <3>1, Zenon
    <3> HIDE DEF last
    <3>6. QED
      BY <3>4, <3>5, Zenon
  <2>5. QED
    BY <2>2, <2>3, <2>4
<1> HIDE DEF last, Said
<1>4. SUFFICES ASSUME NEW i \in DOMAIN Said(e), Said(e)[i][1] = "resolved"
               PROVE  /\ Said(e)[i] \in final
                      /\ \A j \in DOMAIN Said(e) : Said(e)[j][1] = "resolved" /\ Said(e)[j][2] = Said(e)[i][2]
                         => i = j
  BY DEF Tells
<1>5. Said(e)[i] \in final
  BY <1>3, <1>4 DEF Tells
<1>6. ASSUME NEW j \in DOMAIN Said(e), Said(e)[j][1] = "resolved", Said(e)[j][2] = Said(e)[i][2]
      PROVE  i = j
  <2>1. CASE i \in DOMAIN Said(d) /\ Said(d)[i] = Said(e)[i] /\ j \in DOMAIN Said(d) /\ Said(d)[j] = Said(e)[j]
    BY <1>4, <1>6, <2>1 DEF Tells
  <2>2. CASE i \in DOMAIN Said(d) /\ Said(d)[i] = Said(e)[i] /\ j = last /\ Said(e)[j] = f
    <3>1. Said(d)[i][2] # f[2]
      BY <1>4, <2>2
    <3>2. QED
      BY <1>6, <2>2, <3>1
  <2>3. CASE j \in DOMAIN Said(d) /\ Said(d)[j] = Said(e)[j] /\ i = last /\ Said(e)[i] = f
    <3>1. Said(d)[j][2] # f[2]
      BY <1>6, <2>3
    <3>2. QED
      BY <1>6, <2>3, <3>1
  <2>4. QED
    BY <1>3, <1>6, <2>1, <2>2, <2>3, Zenon
<1>7. QED
  BY <1>5, <1>6

LEMMA Shift ==
    ASSUME NEW S, NEW g \in Seq(S), NEW q \in Seq(S), q # <<>>
    PROVE  /\ Append(g, Head(q)) \in Seq(S) /\ Tail(q) \in Seq(S)
           /\ DOMAIN (Append(g, Head(q)) \o Tail(q)) = DOMAIN (g \o q)
           /\ \A i \in DOMAIN (g \o q) : (Append(g, Head(q)) \o Tail(q))[i] = (g \o q)[i]
           /\ \A i \in DOMAIN (g \o Tail(q)) :
                 \/ i <= Len(g) /\ i \in DOMAIN (g \o q) /\ (g \o Tail(q))[i] = (g \o q)[i]
                 \/ i > Len(g) /\ i + 1 \in DOMAIN (g \o q) /\ (g \o Tail(q))[i] = (g \o q)[i + 1]
<1>1. Len(g) \in Nat /\ Len(q) \in Nat \ {0} /\ Len(Tail(q)) = Len(q) - 1 /\ Head(q) \in S /\ Head(q) = q[1]
      /\ Tail(q) \in Seq(S) /\ \A i \in 1 .. Len(q) - 1 : Tail(q)[i] = q[i + 1]
  BY TailOf
<1> DEFINE h == Head(q)
           t == Tail(q)
           u == Append(g, h)
<1>2. h \in S /\ t \in Seq(S) /\ h = q[1] /\ Len(t) = Len(q) - 1 /\ \A i \in 1 .. Len(q) - 1 : t[i] = q[i + 1]
  BY <1>1
<1> HIDE DEF h, t
<1>3. u \in Seq(S) /\ Len(u) = Len(g) + 1 /\ u[Len(g) + 1] = h /\ \A i \in 1 .. Len(g) : u[i] = g[i]
  BY <1>2, AppendOf
<1> HIDE DEF u
<1>4. DOMAIN (g \o q) = 1 .. Len(g) + Len(q) /\ DOMAIN (g \o t) = 1 .. Len(g) + Len(t)
      /\ DOMAIN (u \o t) = 1 .. Len(u) + Len(t)
  <2>1. DOMAIN (g \o q) = 1 .. Len(g) + Len(q)
    OBVIOUS
  <2>2. DOMAIN (g \o t) = 1 .. Len(g) + Len(t)
    BY <1>2
  <2>3. DOMAIN (u \o t) = 1 .. Len(u) + Len(t)
    <3>1. u \in Seq(S) /\ t \in Seq(S)
      BY <1>2, <1>3
    <3>2. QED
      BY <3>1
  <2>4. QED
    BY <2>1, <2>2, <2>3
<1>5. DOMAIN (u \o t) = DOMAIN (g \o q)
  BY <1>1, <1>2, <1>3, <1>4
<1>6. ASSUME NEW i \in DOMAIN (g \o q) PROVE (u \o t)[i] = (g \o q)[i]
  <2>1. CASE i <= Len(g)
    <3>1. (g \o q)[i] = g[i] /\ (u \o t)[i] = u[i] /\ u[i] = g[i]
      BY <1>1, <1>2, <1>3, <1>4, <2>1
    <3>2. QED
      BY <3>1
  <2>2. CASE i = Len(g) + 1
    <3>1. (g \o q)[i] = q[1]
      BY <1>1, <1>4, <2>2
    <3>2. (u \o t)[i] = u[i]
      BY <1>1, <1>2, <1>3, <1>4, <2>2
    <3>3. QED
      BY <1>2, <1>3, <2>2, <3>1, <3>2
  <2>3. CASE i > Len(g) + 1
    <3>1. (g \o q)[i] = q[i - Len(g)]
      BY <1>1, <1>4, <2>3
    <3>2. (u \o t)[i] = t[i - Len(u)]
      BY <1>1, <1>2, <1>3, <1>4, <2>3
    <3>3. t[i - Len(u)] = q[i - Len(g)]
      <4> DEFINE k == i - Len(u)
      <4>1. k \in 1 .. Len(q) - 1 /\ k + 1 = i - Len(g)
        BY <1>1, <1>3, <1>4, <2>3
      <4> HIDE DEF k
      <4>2. t[k] = q[k + 1]
        BY <1>2, <4>1
      <4>3. QED
        BY <4>1, <4>2 DEF k
    <3>4. QED
      BY <3>1, <3>2, <3>3
  <2> DEFINE n == Len(g)
  <2>4. i \in Nat /\ n \in Nat
    BY <1>1, <1>4
  <2>5. i <= n \/ i = n + 1 \/ i > n + 1
    <3> HIDE DEF n
    <3>1. QED
      BY <2>4
  <2>6. QED
    BY <2>1, <2>2, <2>3, <2>5
<1>7. ASSUME NEW i \in DOMAIN (g \o t)
      PROVE  \/ i <= Len(g) /\ i \in DOMAIN (g \o q) /\ (g \o t)[i] = (g \o q)[i]
             \/ i > Len(g) /\ i + 1 \in DOMAIN (g \o q) /\ (g \o t)[i] = (g \o q)[i + 1]
  <2>1. CASE i <= Len(g)
    <3>1. (g \o q)[i] = g[i] /\ (g \o t)[i] = g[i]
      BY <1>1, <1>2, <1>4, <2>1
    <3>2. QED
      BY <1>1, <1>2, <1>4, <2>1, <3>1
  <2>2. CASE i > Len(g)
    <3> DEFINE k == i - Len(g)
    <3>1. k \in 1 .. Len(q) - 1 /\ i + 1 \in 1 .. Len(g) + Len(q)
      BY <1>1, <1>2, <1>4, <2>2
    <3>2. (g \o t)[i] = t[k]
      BY <1>1, <1>2, <1>4, <2>2
    <3>3. (g \o q)[i + 1] = q[(i + 1) - Len(g)]
      BY <1>1, <1>4, <2>2, <3>1
    <3>4. (i + 1) - Len(g) = k + 1
      BY <1>1, <1>4
    <3> HIDE DEF k
    <3>5. t[k] = q[k + 1]
      BY <1>2, <3>1
    <3>6. QED
      BY <1>4, <2>2, <3>1, <3>2, <3>3, <3>4, <3>5
  <2>3. QED
    BY <1>1, <1>4, <2>1, <2>2
<1>8. QED
  BY <1>2, <1>3, <1>5, <1>6, <1>7 DEF h, t, u

-----------------------------------------------------------------------------
(* What a connection keeps while its queue and what it got stay the same.   *)
LEMMA QuietTells ==
    ASSUME NEW final, NEW d, NEW e, e.got = d.got, e.queue = d.queue, Tells(d, final)
    PROVE  Tells(e, final)
BY DEF Said, Tells

LEMMA UnregisterSound ==
    ASSUME NEW top \in Nat, NEW final, NEW way, NEW d, Sound(d, top), Tells(d, final)
    PROVE  /\ Sound(Hub!Unregister(d), top) /\ Tells(Hub!Unregister(d), final)
              /\ Covered(Hub!Unregister(d), top, way)
           /\ Hub!Unregister(d).closed /\ Hub!Unregister(d).queue = d.queue /\ Hub!Unregister(d).got = d.got
<1> DEFINE nothing == <<>>
           e == Hub!Unregister(d)
<1>1. e = [Hub!Close(d) EXCEPT !.registered = FALSE, !.buffering = FALSE, !.buffer = nothing]
  BY DEF Hub!Unregister
<1>2. nothing \in Numbers /\ Below(nothing, top)
  BY DEF Below, Numbers
<1> HIDE DEF nothing
<1>3. Hub!Close(d) \in ConnType /\ Hub!Close(d).closed
  BY DEF Hub!Close, ConnType, Sound
<1>4. e \in ConnType
  <2> DEFINE c == Hub!Close(d)
  <2>1. c \in ConnType
    BY <1>3
  <2> HIDE DEF c
  <2>2. [c EXCEPT !.registered = FALSE, !.buffering = FALSE, !.buffer = nothing] \in ConnType
    BY <1>2, <2>1 DEF ConnType
  <2>3. QED
    BY <1>1, <2>2 DEF c
<1>5. /\ e.closed /\ e.queue = d.queue /\ e.got = d.got /\ e.writer = d.writer /\ e.from = d.from
         /\ e.snapshot = d.snapshot
      /\ e.buffer = nothing /\ e.token = (IF d.closed THEN d.token ELSE TRUE)
  BY <1>1, <1>3 DEF Hub!Close, ConnType, Sound
<1> HIDE DEF e
<1>6. Sound(e, top) /\ Covered(e, top, way)
  BY <1>2, <1>4, <1>5 DEF Covered, Sound
<1>7. Tells(e, final)
  BY <1>5, QuietTells
<1>8. QED
  BY <1>5, <1>6, <1>7 DEF e

(* fail, of a connection a frame has already closed, or by its own writer.  *)
LEMMA FailIs ==
    ASSUME NEW d \in ConnType
    PROVE  /\ Hub!Fail(d) \in ConnType /\ Hub!Fail(d).closed /\ ~Hub!Fail(d).failing /\ Hub!Fail(d).buffer = <<>>
           /\ Hub!Fail(d).queue = d.queue /\ Hub!Fail(d).got = d.got /\ Hub!Fail(d).writer = d.writer
              /\ Hub!Fail(d).token = d.token
           /\ Hub!Fail(d).from = d.from /\ Hub!Fail(d).snapshot = d.snapshot
<1> DEFINE nothing == <<>>
           b == [d EXCEPT !.closed = TRUE, !.failing = FALSE, !.broken = TRUE]
<1>1. b \in ConnType /\ b.closed
  BY DEF ConnType
<1>2. Hub!Close(b) = b
  BY <1>1 DEF Hub!Close
<1>3. Hub!Fail(d) = [b EXCEPT !.registered = FALSE, !.buffering = FALSE, !.buffer = nothing]
  BY <1>2 DEF Hub!Fail, Hub!Unregister
<1>4. nothing \in Numbers
  BY DEF Numbers
<1> DEFINE e == Hub!Fail(d)
<1>5. e = [b EXCEPT !.registered = FALSE, !.buffering = FALSE, !.buffer = nothing]
  BY <1>3
<1> HIDE DEF nothing, e
<1>6. e \in ConnType
  <2> HIDE DEF b
  <2>1. QED
    BY <1>1, <1>4, <1>5 DEF ConnType
<1>7. /\ e.closed /\ ~e.failing /\ e.buffer = nothing /\ e.queue = d.queue /\ e.got = d.got
      /\ e.writer = d.writer /\ e.token = d.token /\ e.from = d.from /\ e.snapshot = d.snapshot
  BY <1>5 DEF ConnType
<1>8. QED
  BY <1>6, <1>7 DEF e, nothing

LEMMA FailSound ==
    ASSUME NEW top \in Nat, NEW final, NEW way, NEW d, Sound(d, top), Tells(d, final), d.failing
    PROVE  Sound(Hub!Fail(d), top) /\ Tells(Hub!Fail(d), final) /\ Covered(Hub!Fail(d), top, way)
<1>1. d \in ConnType /\ d.closed
  BY DEF Sound
<1> DEFINE e == Hub!Fail(d)
<1>2. /\ e \in ConnType /\ e.closed /\ ~e.failing /\ e.buffer = <<>> /\ e.queue = d.queue /\ e.got = d.got
      /\ e.writer = d.writer /\ e.token = d.token /\ e.from = d.from /\ e.snapshot = d.snapshot
  BY <1>1, FailIs
<1> HIDE DEF e
<1>3. Below(e.buffer, top)
  BY <1>2 DEF Below
<1>4. Sound(e, top)
  BY <1>1, <1>2, <1>3 DEF Sound
<1>5. Tells(e, final)
  BY <1>2, QuietTells
<1>6. QED
  BY <1>2, <1>4, <1>5 DEF Covered, e

(* The next frame has been written, or was lost with the socket.            *)
LEMMA WriteSound ==
    ASSUME NEW top \in Nat, NEW final, NEW way, NEW d, Sound(d, top), Tells(d, final),
           d.queue # <<>>, d.writer = "look",
           NEW e, e = [[d EXCEPT !.queue = Tail(d.queue)] EXCEPT !.got = Append(d.got, Head(d.queue))]
    PROVE  Sound(e, top) /\ Tells(e, final) /\ (Covered(d, top, way) => Covered(e, top, way))
<1> DEFINE q == d.queue
           g == d.got
           t == Tail(q)
           u == Append(g, Head(q))
<1>1. d \in ConnType /\ q \in Seq(Frame) /\ g \in Seq(Frame) /\ q # <<>>
  BY QueueLen DEF Sound
<1>2. /\ u \in Seq(Frame) /\ t \in Seq(Frame) /\ DOMAIN (u \o t) = DOMAIN (g \o q)
      /\ \A i \in DOMAIN (g \o q) : (u \o t)[i] = (g \o q)[i]
  <2> HIDE DEF q, g
  <2>1. QED
    BY <1>1, Shift
<1>3. e = [[d EXCEPT !.queue = t] EXCEPT !.got = u]
  OBVIOUS
<1>4. Said(d) = g \o q
  BY DEF Said
<1>5. /\ DOMAIN q = 1 .. Len(q) /\ DOMAIN t = 1 .. Len(q) - 1 /\ (\A i \in 1 .. Len(q) - 1 : t[i] = q[i + 1])
      /\ Len(q) \in Nat \ {0} /\ Head(q) = q[1]
  <2> HIDE DEF q, g
  <2>1. QED
    BY <1>1, TailOf
<1>6. /\ DOMAIN g = 1 .. Len(g) /\ DOMAIN u = 1 .. Len(g) + 1 /\ Len(g) \in Nat
      /\ \A i \in 1 .. Len(g) : u[i] = g[i]
      /\ u[Len(g) + 1] = Head(q)
  <2> HIDE DEF g
  <2>1. Head(q) \in Frame
    <3> HIDE DEF q
    <3>1. QED
      BY <1>1, TailOf
  <2> DEFINE h == Head(q)
  <2> HIDE DEF h
  <2>2. Append(g, h) = u
    BY DEF h
  <2>3. h \in Frame
    BY <2>1 DEF h
  <2>4. /\ DOMAIN g = 1 .. Len(g) /\ DOMAIN Append(g, h) = 1 .. Len(g) + 1 /\ Len(g) \in Nat
        /\ \A i \in 1 .. Len(g) : Append(g, h)[i] = g[i]
        /\ Append(g, h)[Len(g) + 1] = h
    BY <1>1, <2>3, AppendOf
  <2>5. QED
    BY <2>2, <2>4 DEF h
<1>7. u \in Frames /\ t \in Frames
  BY <1>2 DEF Frames
<1> HIDE DEF t, u
<1>8. e \in ConnType
  BY <1>1, <1>3, <1>7 DEF ConnType
<1>9. /\ e.queue = t /\ e.got = u /\ e.failing = d.failing /\ e.closed = d.closed /\ e.writer = d.writer
      /\ e.stage = d.stage /\ e.registered = d.registered /\ e.from = d.from /\ e.buffer = d.buffer
         /\ e.snapshot = d.snapshot
      /\ e.complete = d.complete
  BY <1>1, <1>3 DEF ConnType
<1>10. Sound(e, top)
  BY <1>8, <1>9 DEF Sound
<1>11. Tells(e, final)
  <2>1. Said(e) = u \o t
    BY <1>9 DEF Said
  <2> HIDE DEF q, g
  <2>2. DOMAIN Said(e) = DOMAIN Said(d) /\ \A i \in DOMAIN Said(d) : Said(e)[i] = Said(d)[i]
    BY <1>2, <1>4, <2>1
  <2>3. QED
    BY <2>2 DEF Tells
<1>12. ASSUME Covered(d, top, way) PROVE Covered(e, top, way)
  <2>1. ASSUME NEW f, NEW i \in DOMAIN q, q[i] = f
        PROVE  (\E j \in DOMAIN t : t[j] = f) \/ (\E j \in DOMAIN u : u[j] = f)
    <3>1. CASE i = 1
      <4>1. Len(g) + 1 \in DOMAIN u /\ u[Len(g) + 1] = f
        BY <1>5, <1>6, <2>1, <3>1
      <4>2. QED
        BY <4>1
    <3>2. CASE i # 1
      <4> DEFINE k == i - 1
      <4>1. k \in 1 .. Len(q) - 1 /\ k + 1 = i
        BY <1>5, <2>1, <3>2
      <4> HIDE DEF k
      <4>2. k \in DOMAIN t /\ t[k] = f
        BY <1>5, <2>1, <4>1
      <4>3. QED
        BY <4>2
    <3>3. QED
      BY <3>1, <3>2
  <2>2. ASSUME NEW f, NEW i \in DOMAIN g, g[i] = f PROVE \E j \in DOMAIN u : u[j] = f
    <3>1. i \in DOMAIN u /\ u[i] = f
      BY <1>6, <2>2
    <3>2. QED
      BY <3>1
  <2>3. SUFFICES ASSUME e.stage \in {"finish", "reading"}, ~e.closed, e.complete, NEW n \in e.from .. top - 1
                 PROVE  \/ n \in way
                        \/ \E i \in DOMAIN e.snapshot : e.snapshot[i] = n
                        \/ \E i \in DOMAIN e.buffer : e.buffer[i] = n
                        \/ \E i \in DOMAIN e.queue : e.queue[i] = Hub!EventFrame(n)
                        \/ \E i \in DOMAIN e.got : e.got[i] = Hub!EventFrame(n)
    BY Zenon DEF Covered
  <2>4. \/ n \in way
        \/ \E i \in DOMAIN e.snapshot : e.snapshot[i] = n
        \/ \E i \in DOMAIN e.buffer : e.buffer[i] = n
        \/ \E i \in DOMAIN q : q[i] = Hub!EventFrame(n)
        \/ \E i \in DOMAIN g : g[i] = Hub!EventFrame(n)
    BY <1>9, <1>12, <2>3 DEF Covered
  <2> HIDE DEF q, g
  <2> DEFINE f == Hub!EventFrame(n)
  <2> HIDE DEF f
  <2>5. (\E i \in DOMAIN q : q[i] = f) => (\E j \in DOMAIN t : t[j] = f) \/ (\E j \in DOMAIN u : u[j] = f)
    BY <2>1
  <2>6. (\E i \in DOMAIN g : g[i] = f) => \E j \in DOMAIN u : u[j] = f
    BY <2>2
  <2>7. QED
    BY <1>9, <2>4, <2>5, <2>6, Zenon DEF f
<1>13. QED
  BY <1>10, <1>11, <1>12

LEMMA WriteFailSound ==
    ASSUME NEW top \in Nat, NEW final, NEW way, NEW d, Sound(d, top), Tells(d, final), d.queue # <<>>,
           NEW e, e = [Hub!Fail([d EXCEPT !.queue = Tail(d.queue)]) EXCEPT !.writer = "done"]
    PROVE  Sound(e, top) /\ Tells(e, final) /\ Covered(e, top, way)
<1> DEFINE q == d.queue
           g == d.got
           t == Tail(q)
<1>1. d \in ConnType /\ q \in Seq(Frame) /\ g \in Seq(Frame) /\ q # <<>>
  BY QueueLen DEF Sound
<1>2. /\ t \in Seq(Frame)
      /\ \A i \in DOMAIN (g \o t) :
            \/ i <= Len(g) /\ i \in DOMAIN (g \o q) /\ (g \o t)[i] = (g \o q)[i]
            \/ i > Len(g) /\ i + 1 \in DOMAIN (g \o q) /\ (g \o t)[i] = (g \o q)[i + 1]
  <2> HIDE DEF q, g
  <2>1. QED
    BY <1>1, Shift
<1>3. Said(d) = g \o q
  BY DEF Said
<1>4. Len(g) \in Nat /\ DOMAIN (g \o t) \subseteq Nat
  <2> HIDE DEF q, g, t
  <2>1. g \o t \in Seq(Frame)
    BY <1>1, <1>2
  <2> DEFINE gt == g \o t
  <2> HIDE DEF gt
  <2>2. DOMAIN gt \subseteq Nat
    BY <2>1 DEF gt
  <2>3. QED
    BY <1>1, <2>2 DEF gt
<1> DEFINE p == [d EXCEPT !.queue = t]
<1>5. t \in Frames
  BY <1>2 DEF Frames
<1> HIDE DEF t
<1>6. p \in ConnType /\ p.queue = t /\ p.got = g /\ p.from = d.from /\ p.snapshot = d.snapshot
  BY <1>1, <1>5 DEF ConnType
<1>7. e = [Hub!Fail(p) EXCEPT !.writer = "done"]
  BY DEF t
<1> HIDE DEF p
<1>8. /\ Hub!Fail(p) \in ConnType /\ Hub!Fail(p).closed /\ ~Hub!Fail(p).failing /\ Hub!Fail(p).buffer = <<>>
      /\ Hub!Fail(p).queue = p.queue /\ Hub!Fail(p).got = p.got /\ Hub!Fail(p).from = p.from
         /\ Hub!Fail(p).snapshot = p.snapshot
  BY <1>6, FailIs
<1> DEFINE w == Hub!Fail(p)
<1>9. w \in ConnType /\ e = [w EXCEPT !.writer = "done"]
  BY <1>7, <1>8
<1> HIDE DEF w
<1>10. /\ e \in ConnType /\ e.writer = "done" /\ e.closed = w.closed /\ e.failing = w.failing /\ e.buffer = w.buffer
       /\ e.queue = w.queue /\ e.got = w.got /\ e.from = w.from /\ e.snapshot = w.snapshot
  BY <1>9 DEF ConnType
<1>11. /\ e.closed /\ ~e.failing /\ e.buffer = <<>> /\ e.queue = t /\ e.got = g /\ e.from = d.from
          /\ e.snapshot = d.snapshot
  BY <1>6, <1>8, <1>10 DEF w
<1>12. Below(e.buffer, top)
  BY <1>11 DEF Below
<1>13. Sound(e, top) /\ Covered(e, top, way)
  BY <1>10, <1>11, <1>12 DEF Covered, Sound
<1>14. Tells(e, final)
  <2>1. Said(e) = g \o t
    BY <1>11 DEF Said
  <2> HIDE DEF q, g
  <2> DEFINE old == g \o q
             new == g \o t
             n == Len(g)
  <2>2. ASSUME NEW i \in DOMAIN new
        PROVE  \/ i <= n /\ i \in DOMAIN old /\ new[i] = old[i]
               \/ i > n /\ i + 1 \in DOMAIN old /\ new[i] = old[i + 1]
    BY <1>2
  <2>3. n \in Nat /\ DOMAIN new \subseteq Nat
    BY <1>4
  <2>4. Said(e) = new /\ Said(d) = old
    BY <1>3, <2>1
  <2> HIDE DEF old, new, n
  <2> DEFINE m(i) == IF i <= n THEN i ELSE i + 1
  <2>5. \A i \in DOMAIN new : m(i) \in DOMAIN old /\ new[i] = old[m(i)]
    BY <2>2, <2>3
  <2>6. \A i, j \in DOMAIN new : m(i) = m(j) => i = j
    BY <2>3
  <2> HIDE DEF m, Said
  <2>7. SUFFICES ASSUME NEW i \in DOMAIN new, new[i][1] = "resolved"
                 PROVE  /\ new[i] \in final
                        /\ \A j \in DOMAIN new : new[j][1] = "resolved" /\ new[j][2] = new[i][2] => i = j
    BY <2>4 DEF Tells
  <2>8. \A k \in DOMAIN old : old[k][1] = "resolved" =>
          /\ old[k] \in final
          /\ \A j \in DOMAIN old : old[j][1] = "resolved" /\ old[j][2] = old[k][2] => k = j
    BY <2>4 DEF Tells
  <2>9. m(i) \in DOMAIN old /\ old[m(i)] = new[i]
    BY <2>5
  <2>10. new[i] \in final
    BY <2>7, <2>8, <2>9
  <2>11. ASSUME NEW j \in DOMAIN new, new[j][1] = "resolved", new[j][2] = new[i][2] PROVE i = j
    <3>1. m(j) \in DOMAIN old /\ old[m(j)] = new[j]
      BY <2>5
    <3>2. m(i) = m(j)
      <4> DEFINE x == m(i)
                 y == m(j)
      <4>1. x \in DOMAIN old /\ y \in DOMAIN old /\ old[x] = new[i] /\ old[y] = new[j]
        BY <2>9, <3>1
      <4> HIDE DEF x, y
      <4>2. x = y
        BY <2>7, <2>8, <2>11, <4>1
      <4>3. QED
        BY <4>2 DEF x, y
    <3>3. QED
      BY <2>6, <3>2
  <2>12. QED
    BY <2>10, <2>11
<1>15. QED
  BY <1>13, <1>14

-----------------------------------------------------------------------------
(* One connection moves, the session and the approvals do not.              *)
Keeps(c, e) == /\ Sound(e, stored) /\ Tells(e, Finals)
               /\ c \in MuxConns => Covered(e, stored, Way)

LEMMA UpdateKeeps ==
    ASSUME ConnsInv, NEW c \in Hub!Conns, NEW e, Keeps(c, e), conn' = [conn EXCEPT ![c] = e],
           UNCHANGED <<Hub!session, Hub!approvals>>
    PROVE  ConnsInv'
<1>1. Finals' = Finals /\ Way' = Way /\ stored' = stored
  BY DEF Hub!approvals, Final, Finals, Hub!session, Way
<1>2. e \in ConnType /\ Sound(e, stored)
  BY DEF Keeps, Sound
<1>3. conn' \in [Hub!Conns -> ConnType] /\ \A b \in Hub!Conns : conn'[b] = IF b = c THEN e ELSE conn[b]
  BY <1>2 DEF ConnsInv
<1>4. ASSUME NEW b \in Hub!Conns PROVE Sound(conn'[b], stored') /\ Tells(conn'[b], Finals')
  <2>1. CASE b = c
    BY <1>1, <1>3, <2>1 DEF Keeps
  <2>2. CASE b # c
    BY <1>1, <1>3, <2>2 DEF ConnsInv
  <2>3. QED
    BY <2>1, <2>2
<1>5. ASSUME NEW b \in MuxConns PROVE Covered(conn'[b], stored', Way')
  <2>0. b \in Hub!Conns
    BY DEF Hub!Conns
  <2>1. CASE b = c
    BY <1>1, <1>3, <1>5, <2>1 DEF Keeps
  <2>2. CASE b # c
    BY <1>1, <1>3, <2>0, <2>2 DEF ConnsInv
  <2>3. QED
    BY <2>1, <2>2
<1>6. QED
  BY <1>3, <1>4, <1>5 DEF ConnsInv

LEMMA ConnAt == ASSUME SessionInv, ConnsInv, NEW c \in Hub!Conns
    PROVE Keeps(c, conn[c]) /\ conn[c] \in ConnType /\ stored \in Nat
BY DEF ConnsInv, Keeps, SessionInv

LEMMA ConnectionStep ==
    ASSUME SessionInv, ConnsInv, NEW c \in Hub!Conns, Hub!Connection(c)
    PROVE  ConnsInv' /\ UNCHANGED <<Hub!session, staged, backlog, notices, Hub!approvals>>
<1> DEFINE d == conn[c]
<1>1. Keeps(c, d) /\ d \in ConnType /\ stored \in Nat
  BY ConnAt
<1>2. UNCHANGED <<Hub!session, staged, backlog, notices, Hub!approvals>>
  BY DEF Hub!Connection, Hub!FailAsync, Hub!ReaderEnds, Hub!WriteFrame, Hub!WriterIdle, Hub!WriterWakes
<1>3. CASE Hub!FailAsync(c)
  <2>1. conn' = [conn EXCEPT ![c] = Hub!Fail(d)] /\ d.failing
    BY <1>3 DEF Hub!FailAsync, Hub!Update
  <2> HIDE DEF d
  <2>2. Keeps(c, Hub!Fail(d))
    BY <1>1, <2>1, FailSound DEF Keeps
  <2>3. QED
    BY <1>2, <2>1, <2>2, UpdateKeeps
<1>4. CASE Hub!WriteFrame(c)
  <2>1. d.writer = "look" /\ d.queue # <<>>
    BY <1>4 DEF Hub!WriteFrame
  <2>2. CASE conn' = [conn EXCEPT ![c] = [[d EXCEPT !.queue = Tail(@)] EXCEPT !.got = Append(@, Head(d.queue))]]
    <3> DEFINE e == [[d EXCEPT !.queue = Tail(d.queue)] EXCEPT !.got = Append(d.got, Head(d.queue))]
    <3>1. conn' = [conn EXCEPT ![c] = e]
      <4> DEFINE w == [d EXCEPT !.queue = Tail(@)]
                 t == Tail(d.queue)
      <4>1. w = [d EXCEPT !.queue = t]
        OBVIOUS
      <4> HIDE DEF d, t
      <4>2. w.got = d.got
        BY <1>1, <4>1 DEF ConnType
      <4> HIDE DEF w
      <4>3. conn' = [conn EXCEPT ![c] = [w EXCEPT !.got = Append(w.got, Head(d.queue))]]
        BY <2>2 DEF d, w
      <4>4. QED
        BY <4>1, <4>2, <4>3 DEF t
    <3> HIDE DEF d
    <3>2. Keeps(c, e)
      BY <1>1, <2>1, WriteSound DEF Keeps
    <3>3. QED
      BY <1>2, <3>1, <3>2, UpdateKeeps
  <2>3. CASE conn' = [conn EXCEPT ![c] = [Hub!Fail([d EXCEPT !.queue = Tail(@)]) EXCEPT !.writer = "done"]]
    <3> DEFINE e == [Hub!Fail([d EXCEPT !.queue = Tail(d.queue)]) EXCEPT !.writer = "done"]
    <3>1. conn' = [conn EXCEPT ![c] = e]
      BY <2>3
    <3> HIDE DEF d
    <3>2. Keeps(c, e)
      BY <1>1, <2>1, WriteFailSound DEF Keeps
    <3>3. QED
      BY <1>2, <3>1, <3>2, UpdateKeeps
  <2>4. QED
    BY <1>4, <2>2, <2>3 DEF Hub!Update, Hub!WriteFrame
<1>5. CASE Hub!WriterIdle(c)
  <2> DEFINE w == IF d.closed THEN "done" ELSE "wait"
             e == [d EXCEPT !.writer = w]
  <2>1. d.queue = <<>> /\ conn' = [conn EXCEPT ![c] = e]
    BY <1>5 DEF Hub!Update, Hub!WriterIdle
  <2> HIDE DEF d
  <2>2. e \in ConnType
    BY <1>1 DEF ConnType
  <2>3. Sound(e, stored)
    BY <1>1, <2>1, <2>2 DEF ConnType, Keeps, Sound
  <2>4. e.got = d.got /\ e.queue = d.queue
    BY <1>1 DEF ConnType
  <2>5. Tells(e, Finals)
    BY <1>1, <2>4, QuietTells DEF Keeps
  <2>6. \A way : Covered(d, stored, way) => Covered(e, stored, way)
    BY <1>1 DEF ConnType, Covered
  <2>7. Keeps(c, e)
    BY <1>1, <2>3, <2>5, <2>6 DEF Keeps
  <2>8. QED
    BY <1>2, <2>1, <2>7, UpdateKeeps
<1>6. CASE Hub!WriterWakes(c)
  <2> DEFINE e == [d EXCEPT !.writer = "look", !.token = FALSE]
  <2>1. conn' = [conn EXCEPT ![c] = e]
    BY <1>6 DEF Hub!Update, Hub!WriterWakes
  <2> HIDE DEF d
  <2>2. e \in ConnType
    BY <1>1 DEF ConnType
  <2>3. Sound(e, stored)
    BY <1>1, <2>1, <2>2 DEF ConnType, Keeps, Sound
  <2>4. e.got = d.got /\ e.queue = d.queue
    BY <1>1 DEF ConnType
  <2>5. Tells(e, Finals)
    BY <1>1, <2>4, QuietTells DEF Keeps
  <2>6. \A way : Covered(d, stored, way) => Covered(e, stored, way)
    BY <1>1 DEF ConnType, Covered
  <2>7. Keeps(c, e)
    BY <1>1, <2>3, <2>5, <2>6 DEF Keeps
  <2>8. QED
    BY <1>2, <2>1, <2>7, UpdateKeeps
<1>7. CASE Hub!ReaderEnds(c)
  <2> DEFINE u == Hub!Unregister(d)
             e == [u EXCEPT !.stage = "ended", !.broken = TRUE]
  <2>1. conn' = [conn EXCEPT ![c] = e]
    BY <1>7 DEF Hub!ReaderEnds, Hub!Update
  <2> HIDE DEF d
  <2>2. Sound(u, stored) /\ Tells(u, Finals) /\ u.closed
    BY <1>1, UnregisterSound DEF Keeps
  <2> HIDE DEF u
  <2>3. e \in ConnType /\ e.got = u.got /\ e.queue = u.queue /\ e.closed
    BY <2>2 DEF ConnType, Sound
  <2>4. Sound(e, stored)
    BY <2>2, <2>3 DEF ConnType, Sound
  <2>5. Tells(e, Finals)
    BY <2>2, <2>3, QuietTells
  <2>6. Keeps(c, e)
    BY <2>3, <2>4, <2>5 DEF Covered, Keeps
  <2>7. QED
    BY <1>2, <2>1, <2>6, UpdateKeeps
<1>8. QED
  BY <1>3, <1>4, <1>5, <1>6, <1>7 DEF Hub!Connection

-----------------------------------------------------------------------------
(* Frames that resolve nothing, enqueued for a connection.                  *)
Plain(s) == s \in Seq(Frame) /\ \A i \in DOMAIN s : Within(s[i], stored) /\ s[i][1] # "resolved"

LEMMA EnqueueAllKeeps ==
    ASSUME SessionInv, NEW c \in Hub!Conns, NEW d, Keeps(c, d), NEW s, Plain(s)
    PROVE  /\ Keeps(c, Hub!EnqueueAll(d, s)) /\ Hub!EnqueueAll(d, s) \in ConnType
           /\ Longer(Hub!EnqueueAll(d, s), d, Elems(s))
<1> DEFINE e == Hub!EnqueueAll(d, s)
           F == {s[i] : i \in DOMAIN s}
<1>1. stored \in Nat /\ Sound(d, stored) /\ Tells(d, Finals) /\ s \in Seq(Frame)
      /\ \A i \in DOMAIN s : Within(s[i], stored)
  BY DEF Keeps, Plain, SessionInv
<1>2. Sound(e, stored) /\ Longer(e, d, F)
  BY <1>1, EnqueueAllSound
<1>3. \A f \in F : f[1] # "resolved"
  BY DEF Plain
<1> HIDE DEF e, F
<1>4. d \in ConnType /\ e \in ConnType
  BY <1>1, <1>2 DEF Sound
<1>5. Tells(e, Finals)
  BY <1>1, <1>2, <1>3, <1>4, LongerTells
<1>6. c \in MuxConns => Covered(e, stored, Way)
  BY <1>2, <1>4, LongerCovers DEF Keeps
<1>7. F = Elems(s)
  BY DEF Elems, F
<1>8. QED
  BY <1>2, <1>4, <1>5, <1>6, <1>7 DEF e, Keeps

LEMMA StagedPlain == ASSUME SessionInv PROVE Plain(Hub!StagedFrames)
<1>1. staged \in Seq(Calls) /\ Len(staged) \in Nat /\ \A i \in 1 .. Len(staged) : staged[i] \in Calls
  BY DEF SessionInv
<1>2. \A a \in Calls : Hub!PromptFrame(a) \in Frame /\ Hub!PromptFrame(a)[1] = "request"
  BY DEF Frame, Hub!PromptFrame
<1> DEFINE n == Len(staged)
<1>3. Hub!StagedFrames = [i \in 1 .. n |-> Hub!PromptFrame(staged[i])] /\ n \in Nat
                                                                          /\ \A i \in 1 .. n : staged[i] \in Calls
  BY <1>1 DEF Hub!StagedFrames
<1> HIDE DEF n
<1>4. \A i \in 1 .. n : Hub!PromptFrame(staged[i]) \in Frame
  BY <1>2, <1>3
<1>5. Hub!StagedFrames \in [1 .. n -> Frame] /\ DOMAIN Hub!StagedFrames = 1 .. n
  BY <1>3, <1>4
<1>6. Hub!StagedFrames \in Seq(Frame)
  BY <1>3, <1>5
<1>7. \A i \in DOMAIN Hub!StagedFrames : Hub!StagedFrames[i][1] = "request"
  BY <1>2, <1>3
<1>8. QED
  BY <1>6, <1>7 DEF Plain, Within

LEMMA RegisterMuxStep ==
    ASSUME SessionInv, ConnsInv, NEW c \in MuxConns, NEW from \in 0 .. stored, Hub!RegisterMuxPending(c, from)
    PROVE  ConnsInv' /\ UNCHANGED <<Hub!session, staged, backlog, notices, Hub!approvals>>
<1> DEFINE d == conn[c]
           r == [d EXCEPT !.stage = "query", !.from = from, !.registered = TRUE, !.buffering = TRUE]
           e == Hub!EnqueueAll(r, Hub!StagedFrames)
<1>1. c \in Hub!Conns /\ from \in Nat /\ from <= stored /\ stored \in Nat
  BY DEF Hub!Conns, SessionInv
<1>2. Keeps(c, d) /\ d \in ConnType
  BY <1>1, ConnAt
<1>3. conn' = [conn EXCEPT ![c] = e] /\ UNCHANGED <<Hub!session, staged, backlog, notices, Hub!approvals>>
  BY DEF Hub!RegisterMuxPending, Hub!Update
<1> HIDE DEF d
<1>4. r \in ConnType /\ r.got = d.got /\ r.queue = d.queue
  BY <1>1, <1>2 DEF ConnType
<1>5. Sound(r, stored)
  BY <1>1, <1>2, <1>4 DEF ConnType, Keeps, Sound
<1>6. Tells(r, Finals)
  BY <1>2, <1>4, QuietTells DEF Keeps
<1>7. Covered(r, stored, Way)
  BY <1>2 DEF ConnType, Covered
<1> HIDE DEF r
<1>8. Keeps(c, r)
  BY <1>5, <1>6, <1>7 DEF Keeps
<1>9. Keeps(c, e)
  BY <1>1, <1>8, EnqueueAllKeeps, StagedPlain
<1>10. QED
  BY <1>1, <1>3, <1>9, UpdateKeeps

LEMMA QueryStep ==
    ASSUME SessionInv, ConnsInv, NEW c \in MuxConns, Hub!QueryHistory(c)
    PROVE  ConnsInv' /\ UNCHANGED <<Hub!session, staged, backlog, notices, Hub!approvals>>
<1> DEFINE d == conn[c]
           past == Hub!StoredFrom(d.from)
<1>1. c \in Hub!Conns /\ stored \in Nat
  BY DEF Hub!Conns, SessionInv
<1>2. Keeps(c, d) /\ d \in ConnType
  BY <1>1, ConnAt
<1>3. d.stage = "query" /\ UNCHANGED <<Hub!session, staged, backlog, notices, Hub!approvals>>
  BY DEF Hub!QueryHistory
<1>4. d.from \in Nat /\ d.from <= stored /\ d.registered \in BOOLEAN
  BY <1>2 DEF ConnType, Keeps, Sound
<1>5. CASE conn' = [conn EXCEPT ![c] = [d EXCEPT !.stage = "finish", !.snapshot = past]]
  <2> DEFINE e == [d EXCEPT !.stage = "finish", !.snapshot = past]
             from == d.from
             n == stored - from
  <2>1. from \in Nat /\ n \in Nat /\ past = [i \in 1 .. n |-> from + i - 1]
    BY <1>1, <1>4 DEF Hub!StoredFrom
  <2>2. past \in Seq(Nat) /\ DOMAIN past = 1 .. n /\ \A i \in 1 .. n : past[i] = from + i - 1
    <3> HIDE DEF n, from, past
    <3>1. \A i \in 1 .. n : from + i - 1 \in Nat
      BY <2>1
    <3>2. QED
      BY <2>1, <3>1
  <2>3. Below(past, stored)
    <3>1. ASSUME NEW i \in 1 .. n PROVE past[i] < stored
      <4>1. past[i] = from + i - 1
        BY <2>2
      <4> HIDE DEF past, from
      <4>2. QED
        BY <1>1, <2>1, <4>1
    <3> HIDE DEF past, n
    <3>2. QED
      BY <2>2, <3>1 DEF Below
  <2>4. past \in Numbers
    BY <2>2 DEF Numbers
  <2>5. ASSUME NEW k \in from .. stored - 1 PROVE \E i \in DOMAIN past : past[i] = k
    <3> DEFINE i == k - from + 1
    <3>1. i \in 1 .. n /\ from + i - 1 = k
      <4> HIDE DEF from
      <4>1. QED
        BY <1>1, <2>1
    <3> HIDE DEF i, past, n, from
    <3>2. past[i] = k /\ i \in DOMAIN past
      BY <2>2, <3>1
    <3>3. QED
      BY <3>2
  <2> HIDE DEF past, n, d
  <2>6. /\ e \in ConnType /\ e.got = d.got /\ e.queue = d.queue /\ e.snapshot = past /\ e.from = d.from
        /\ e.buffer = d.buffer /\ e.closed = d.closed /\ e.failing = d.failing /\ e.writer = d.writer
        /\ e.token = d.token /\ e.registered = d.registered
    BY <1>2, <2>4 DEF ConnType
  <2>7. Sound(e, stored)
    BY <1>2, <1>3, <2>3, <2>6 DEF Keeps, Sound
  <2>8. Tells(e, Finals)
    BY <1>2, <2>6, QuietTells DEF Keeps
  <2> HIDE DEF e
  <2>9. Covered(e, stored, Way)
    BY <2>5, <2>6 DEF Covered
  <2>10. QED
    BY <1>1, <1>3, <1>5, <2>7, <2>8, <2>9, UpdateKeeps DEF e, Keeps
<1>6. CASE conn' = [conn EXCEPT ![c] = [d EXCEPT !.stage = "finish", !.complete = FALSE]]
  <2> DEFINE e == [d EXCEPT !.stage = "finish", !.complete = FALSE]
  <2> HIDE DEF d
  <2>1. e \in ConnType /\ e.got = d.got /\ e.queue = d.queue
    BY <1>2 DEF ConnType
  <2>2. Sound(e, stored)
    BY <1>2, <1>3, <2>1 DEF ConnType, Keeps, Sound
  <2>3. Tells(e, Finals)
    BY <1>2, <2>1, QuietTells DEF Keeps
  <2>4. Covered(e, stored, Way)
    BY <1>2 DEF ConnType, Covered
  <2>5. Keeps(c, e)
    BY <2>2, <2>3, <2>4 DEF Keeps
  <2>6. QED
    BY <1>1, <1>3, <1>6, <2>5, UpdateKeeps
<1>7. QED
  BY <1>5, <1>6 DEF Hub!QueryHistory, Hub!Update

LEMMA FinishStep ==
    ASSUME SessionInv, ConnsInv, NEW c \in MuxConns, Hub!FinishMuxReplay(c)
    PROVE  ConnsInv' /\ UNCHANGED <<Hub!session, staged, backlog, notices, Hub!approvals>>
<1> DEFINE d == conn[c]
           events == Hub!Deduplicate(d.snapshot \o d.buffer)
           frames == [i \in DOMAIN events |-> Hub!EventFrame(events[i])]
           nothing == <<>>
           done == [d EXCEPT !.stage = "reading", !.snapshot = nothing]
           all == Hub!EnqueueAll(done, frames)
           e == [all EXCEPT !.buffering = FALSE, !.buffer = nothing]
<1>1. c \in Hub!Conns /\ stored \in Nat
  BY DEF Hub!Conns, SessionInv
<1>2. Keeps(c, d) /\ d \in ConnType
  BY <1>1, ConnAt
<1>3. /\ d.stage = "finish" /\ UNCHANGED <<Hub!session, staged, backlog, notices, Hub!approvals>>
      /\ conn' = [conn EXCEPT ![c] = IF d.registered THEN e ELSE done]
  BY DEF Hub!FinishMuxReplay, Hub!Update
<1>4. nothing \in Numbers /\ Below(nothing, stored) /\ DOMAIN nothing = {}
  BY DEF Below, Numbers
<1>5. /\ events \in Seq(Nat) /\ Elems(events) = Elems(d.snapshot) \cup Elems(d.buffer)
  <2> DEFINE s == d.snapshot
             b == d.buffer
  <2>1. s \in Seq(Nat) /\ b \in Seq(Nat)
    BY <1>2 DEF ConnType, Numbers
  <2> HIDE DEF s, b
  <2>2. s \o b \in Seq(Nat)
    BY <2>1
  <2>3. Hub!Deduplicate(s \o b) \in Seq(Nat) /\ Elems(Hub!Deduplicate(s \o b)) = Elems(s \o b)
    BY <2>2, DeduplicateKeeps
  <2>4. Elems(s \o b) = Elems(s) \cup Elems(b)
    <3>1. /\ Len(s) \in Nat /\ Len(b) \in Nat
          /\ DOMAIN (s \o b) = 1 .. Len(s) + Len(b) /\ DOMAIN s = 1 .. Len(s) /\ DOMAIN b = 1 .. Len(b)
          /\ \A i \in 1 .. Len(s) : (s \o b)[i] = s[i]
          /\ \A i \in 1 .. Len(b) : (s \o b)[Len(s) + i] = b[i]
          /\ \A i \in Len(s) + 1 .. Len(s) + Len(b) : (s \o b)[i] = b[i - Len(s)] /\ i - Len(s) \in 1 .. Len(b)
      BY <2>1, ConcatOf
    <3> DEFINE sb == s \o b
               n == Len(s)
               m == Len(b)
    <3>2. /\ n \in Nat /\ m \in Nat /\ DOMAIN sb = 1 .. n + m /\ DOMAIN s = 1 .. n /\ DOMAIN b = 1 .. m
          /\ \A i \in 1 .. n : sb[i] = s[i]
          /\ \A i \in 1 .. m : sb[n + i] = b[i]
          /\ \A i \in n + 1 .. n + m : sb[i] = b[i - n] /\ i - n \in 1 .. m
      BY <3>1
    <3> HIDE DEF sb, n, m
    <3>3. \A i \in 1 .. n : i \in 1 .. n + m
      BY <3>2
    <3>4. \A i \in 1 .. m : n + i \in 1 .. n + m
      BY <3>2
    <3>5. \A i \in 1 .. n + m : i \in 1 .. n \/ i \in n + 1 .. n + m
      BY <3>2
    <3>6. ASSUME NEW x \in Elems(sb) PROVE x \in Elems(s) \cup Elems(b)
      BY <3>2, <3>5 DEF Elems
    <3>7. ASSUME NEW x \in Elems(s) PROVE x \in Elems(sb)
      BY <3>2, <3>3 DEF Elems
    <3>8. ASSUME NEW x \in Elems(b) PROVE x \in Elems(sb)
      BY <3>2, <3>4 DEF Elems
    <3>9. Elems(sb) = Elems(s) \cup Elems(b)
      BY <3>6, <3>7, <3>8
    <3>10. QED
      BY <3>9 DEF sb
  <2>5. QED
    BY <2>3, <2>4 DEF b, s
<1>6. \A n \in Elems(d.snapshot) \cup Elems(d.buffer) : n < stored
  BY <1>2 DEF Below, Elems, Keeps, Sound
<1> HIDE DEF events
<1>7. Plain(frames) /\ Elems(frames) = {Hub!EventFrame(n) : n \in Elems(events)}
  <2>1. DOMAIN events = 1 .. Len(events) /\ Len(events) \in Nat /\ \A i \in DOMAIN events : events[i] \in Nat
    BY <1>5
  <2>2. \A i \in DOMAIN events : events[i] \in Elems(events)
    BY DEF Elems
  <2>3. \A n \in Nat : Hub!EventFrame(n) \in Frame /\ Hub!EventFrame(n)[1] = "event" /\ Hub!EventFrame(n)[2] = n
    BY DEF Hub!EventFrame, Frame
  <2> DEFINE k == Len(events)
  <2>4. frames = [i \in 1 .. k |-> Hub!EventFrame(events[i])] /\ k \in Nat /\ DOMAIN events = 1 .. k
    BY <2>1
  <2> HIDE DEF k, frames
  <2>5. frames \in Seq(Frame)
    <3>1. \A i \in 1 .. k : Hub!EventFrame(events[i]) \in Frame
      BY <2>1, <2>3, <2>4
    <3>2. frames \in [1 .. k -> Frame]
      BY <2>4, <3>1
    <3>3. QED
      BY <2>4, <3>2
  <2>6. \A i \in DOMAIN frames : Within(frames[i], stored) /\ frames[i][1] # "resolved"
    <3>1. SUFFICES ASSUME NEW i \in DOMAIN frames PROVE Within(frames[i], stored) /\ frames[i][1] # "resolved"
      OBVIOUS
    <3>2. i \in DOMAIN events /\ frames[i] = Hub!EventFrame(events[i])
      BY <2>4
    <3>3. events[i] < stored /\ events[i] \in Nat
      BY <1>5, <1>6, <2>1, <2>2, <3>2
    <3>4. QED
      BY <2>3, <3>2, <3>3 DEF Within
  <2>7. Elems(frames) = {Hub!EventFrame(n) : n \in Elems(events)}
    BY <2>4 DEF Elems
  <2>8. QED
    BY <2>5, <2>6, <2>7 DEF Plain
<1> HIDE DEF frames, nothing, d
<1>8. /\ done \in ConnType /\ done.got = d.got /\ done.queue = d.queue /\ done.snapshot = nothing
         /\ done.from = d.from
      /\ done.buffer = d.buffer /\ done.closed = d.closed /\ done.failing = d.failing /\ done.writer = d.writer
      /\ done.token = d.token /\ done.registered = d.registered /\ done.stage = "reading"
         /\ done.complete = d.complete
  BY <1>2, <1>4 DEF ConnType
<1> HIDE DEF done
<1>9. Sound(done, stored)
  BY <1>2, <1>3, <1>4, <1>8 DEF Keeps, Sound
<1>10. Tells(done, Finals)
  BY <1>2, <1>8, QuietTells DEF Keeps
<1>11. CASE ~d.registered
  <2>1. d.closed
    BY <1>2, <1>3, <1>11 DEF Keeps, Sound
  <2>2. Keeps(c, done)
    BY <1>8, <1>9, <1>10, <2>1 DEF Covered, Keeps
  <2>3. QED
    BY <1>1, <1>3, <1>11, <2>2, UpdateKeeps
<1>12. CASE d.registered
  <2>1. /\ Sound(all, stored) /\ Longer(all, done, Elems(frames)) /\ all \in ConnType /\ Tells(all, Finals)
    <3>1. frames \in Seq(Frame) /\ \A i \in DOMAIN frames : Within(frames[i], stored)
      BY <1>7 DEF Plain
    <3>2. Sound(all, stored) /\ Longer(all, done, {frames[i] : i \in DOMAIN frames})
      BY <1>1, <1>9, <3>1, EnqueueAllSound
    <3>3. {frames[i] : i \in DOMAIN frames} = Elems(frames)
      BY DEF Elems
    <3> HIDE DEF all
    <3>4. Longer(all, done, Elems(frames)) /\ all \in ConnType
      BY <3>2, <3>3 DEF Sound
    <3>5. \A f \in Elems(frames) : f[1] # "resolved"
      BY <1>7 DEF Elems, Plain
    <3>6. QED
      BY <1>8, <1>10, <3>2, <3>4, <3>5, LongerTells
  <2> HIDE DEF all
  <2>2. /\ e \in ConnType /\ e.got = all.got /\ e.queue = all.queue /\ e.snapshot = all.snapshot
           /\ e.from = all.from
        /\ e.buffer = nothing /\ e.closed = all.closed /\ e.failing = all.failing /\ e.writer = all.writer
        /\ e.token = all.token /\ e.registered = all.registered /\ e.stage = all.stage /\ e.complete = all.complete
    BY <1>4, <2>1 DEF ConnType
  <2> HIDE DEF e
  <2>3. Sound(e, stored)
    BY <1>4, <2>1, <2>2 DEF Sound
  <2>4. Tells(e, Finals)
    BY <2>1, <2>2, QuietTells
  <2>5. Covered(e, stored, Way)
    <3>1. Same(all, done) /\ (done.closed => all.closed)
          /\ (~all.closed => \A f \in Elems(frames) : \E i \in 1 .. Len(all.queue) : all.queue[i] = f)
      BY <2>1 DEF Longer
    <3>2. SUFFICES ASSUME ~e.closed, e.complete, NEW n \in e.from .. stored - 1
                   PROVE  n \in Way \/ (\E i \in DOMAIN e.queue : e.queue[i] = Hub!EventFrame(n))
                          \/ (\E i \in DOMAIN e.got : e.got[i] = Hub!EventFrame(n))
      BY Zenon DEF Covered
    <3>3. /\ ~d.closed /\ d.complete /\ n \in d.from .. stored - 1 /\ d.stage = "finish" /\ e.got = d.got
      BY <1>3, <1>8, <2>2, <3>1, <3>2 DEF Same
    <3>4. Covered(d, stored, Way)
      BY <1>2 DEF Keeps
    <3>5. \/ n \in Way
          \/ n \in Elems(d.snapshot) \cup Elems(d.buffer)
          \/ \E i \in DOMAIN d.queue : d.queue[i] = Hub!EventFrame(n)
          \/ \E i \in DOMAIN d.got : d.got[i] = Hub!EventFrame(n)
      BY <3>3, <3>4 DEF Covered, Elems
    <3>6. n \in Elems(d.snapshot) \cup Elems(d.buffer) => \E i \in DOMAIN e.queue : e.queue[i] = Hub!EventFrame(n)
      <4>1. SUFFICES ASSUME n \in Elems(d.snapshot) \cup Elems(d.buffer)
                            PROVE \E i \in DOMAIN e.queue : e.queue[i] = Hub!EventFrame(n)
        OBVIOUS
      <4>2. Hub!EventFrame(n) \in Elems(frames)
        BY <1>5, <1>7, <4>1
      <4>3. PICK i \in 1 .. Len(all.queue) : all.queue[i] = Hub!EventFrame(n)
        BY <2>2, <3>1, <3>2, <4>2
      <4>4. DOMAIN all.queue = 1 .. Len(all.queue)
        BY <2>1, QueueLen
      <4>5. QED
        BY <2>2, <4>3, <4>4
    <3>7. ASSUME NEW i \in DOMAIN d.queue, d.queue[i] = Hub!EventFrame(n)
                 PROVE \E j \in DOMAIN e.queue : e.queue[j] = Hub!EventFrame(n)
      <4>1. /\ Len(done.queue) <= Len(all.queue) /\ \A j \in 1 .. Len(done.queue) : all.queue[j] = done.queue[j]
        BY <2>1 DEF Longer
      <4>2. DOMAIN done.queue = 1 .. Len(done.queue) /\ DOMAIN all.queue = 1 .. Len(all.queue)
            /\ Len(done.queue) \in Nat /\ Len(all.queue) \in Nat
        BY <1>8, <2>1, QueueLen
      <4>3. i \in DOMAIN all.queue /\ all.queue[i] = Hub!EventFrame(n)
        BY <1>8, <3>7, <4>1, <4>2
      <4>4. QED
        BY <2>2, <4>3
    <3>8. QED
      BY <3>3, <3>5, <3>6, <3>7
  <2>6. QED
    BY <1>1, <1>3, <1>12, <2>3, <2>4, <2>5, UpdateKeeps DEF Keeps
<1>13. QED
  BY <1>11, <1>12

LEMMA RegisterHostStep ==
    ASSUME SessionInv, ConnsInv, NEW c \in HostConns, Hub!RegisterHost(c)
    PROVE  ConnsInv' /\ SessionInv' /\ UNCHANGED Hub!approvals
<1> DEFINE d == conn[c]
           r == [d EXCEPT !.stage = "reading", !.registered = TRUE]
<1>1. c \in Hub!Conns /\ stored \in Nat
  BY DEF Hub!Conns, SessionInv
<1>2. Keeps(c, d) /\ d \in ConnType
  BY <1>1, ConnAt
<1>3. UNCHANGED <<Hub!session, staged, notices, Hub!approvals>> /\ backlog' = <<>>
  BY DEF Hub!RegisterHost
<1>4. PICK kept \in Hub!Pruned : conn' = [conn EXCEPT ![c] = Hub!EnqueueAll(r, Hub!StagedFrames \o kept)]
  BY DEF Hub!RegisterHost, Hub!Update
<1>5. kept \in Seq(Notice)
  <2>1. PICK k \in 1 .. Len(backlog) + 1 : kept = SubSeq(backlog, k, Len(backlog))
    BY DEF Hub!Pruned
  <2>2. QED
    BY <2>1, SubSeqOf DEF SessionInv
<1>6. Plain(Hub!StagedFrames \o kept)
  <2>1. Plain(Hub!StagedFrames)
    BY StagedPlain
  <2>2. \A n \in Notice : n \in Frame /\ n[1] = "notice"
    BY DEF Frame, Notice, Hub!NoticeFrame
  <2>3. kept \in Seq(Frame) /\ \A i \in DOMAIN kept : kept[i][1] = "notice"
    <3>1. \A i \in DOMAIN kept : kept[i] \in Notice
      BY <1>5
    <3>2. \A i \in DOMAIN kept : kept[i] \in Frame
      BY <2>2, <3>1
    <3>3. kept \in [1 .. Len(kept) -> Frame] /\ Len(kept) \in Nat
      BY <1>5, <3>2
    <3>4. QED
      BY <2>2, <3>1, <3>3
  <2> DEFINE s == Hub!StagedFrames
  <2>4. s \in Seq(Frame) /\ \A i \in DOMAIN s : Within(s[i], stored) /\ s[i][1] # "resolved"
    BY <2>1 DEF Plain
  <2> HIDE DEF s
  <2>5. /\ s \o kept \in Seq(Frame) /\ Len(s) \in Nat /\ Len(kept) \in Nat
        /\ DOMAIN (s \o kept) = 1 .. Len(s) + Len(kept) /\ DOMAIN s = 1 .. Len(s) /\ DOMAIN kept = 1 .. Len(kept)
        /\ \A i \in 1 .. Len(s) : (s \o kept)[i] = s[i]
        /\ \A i \in Len(s) + 1 .. Len(s) + Len(kept) : (s \o kept)[i] = kept[i - Len(s)] /\ i - Len(s) \in 1 .. Len(kept)
    BY <2>3, <2>4, ConcatOf
  <2> DEFINE all == s \o kept
             n == Len(s)
             m == Len(kept)
  <2>6. /\ all \in Seq(Frame) /\ n \in Nat /\ m \in Nat /\ DOMAIN all = 1 .. n + m /\ DOMAIN s = 1 .. n
           /\ DOMAIN kept = 1 .. m
        /\ \A i \in 1 .. n : all[i] = s[i]
        /\ \A i \in n + 1 .. n + m : all[i] = kept[i - n] /\ i - n \in 1 .. m
    BY <2>5
  <2> HIDE DEF all, n, m
  <2>7. ASSUME NEW i \in DOMAIN all PROVE Within(all[i], stored) /\ all[i][1] # "resolved"
    <3>1. CASE i \in 1 .. n
      BY <2>4, <2>6, <3>1
    <3>2. CASE i \in n + 1 .. n + m
      <4>1. all[i][1] = "notice"
        BY <2>3, <2>6, <3>2
      <4>2. QED
        BY <4>1 DEF Within
    <3>3. QED
      BY <2>6, <3>1, <3>2
  <2>8. QED
    BY <2>6, <2>7 DEF Plain, all, s
<1> HIDE DEF d
<1>7. r \in ConnType /\ r.got = d.got /\ r.queue = d.queue
  BY <1>2 DEF ConnType
<1>8. Sound(r, stored)
  BY <1>2, <1>7 DEF ConnType, Keeps, Sound
<1>9. Tells(r, Finals)
  BY <1>2, <1>7, QuietTells DEF Keeps
<1>10. c \notin MuxConns
  BY ConnsAssumption
<1> HIDE DEF r
<1>11. Keeps(c, r)
  BY <1>8, <1>9, <1>10 DEF Keeps
<1>12. Keeps(c, Hub!EnqueueAll(r, Hub!StagedFrames \o kept))
  BY <1>1, <1>6, <1>11, EnqueueAllKeeps
<1>13. UNCHANGED <<Hub!session, Hub!approvals>>
  BY <1>3
<1>14. ConnsInv'
  BY <1>1, <1>4, <1>12, <1>13, UpdateKeeps
<1>15. SessionInv'
  BY <1>3 DEF SessionInv, Hub!session
<1>16. QED
  BY <1>3, <1>14, <1>15

-----------------------------------------------------------------------------
(* Events on their way to the hub.                                          *)
LEMMA WayGrows ==
    ASSUME SessionInv, ConnsInv, UNCHANGED <<conn, Hub!approvals>>, stored' \in Nat, stored <= stored',
           Way \subseteq Way',
           \A n \in stored .. stored' - 1 : n \in Way'
    PROVE  ConnsInv'
<1>1. Finals' = Finals /\ conn' = conn
  BY DEF Hub!approvals, Final, Finals
<1>2. ASSUME NEW c \in Hub!Conns PROVE Sound(conn[c], stored') /\ Tells(conn[c], Finals')
  <2>1. Sound(conn[c], stored) /\ Tells(conn[c], Finals) /\ stored \in Nat
    BY DEF ConnsInv, SessionInv
  <2> DEFINE d == conn[c]
             top == stored'
  <2>2. d \in ConnType /\ top \in Nat /\ stored <= top
    BY <2>1 DEF Sound
  <2> HIDE DEF d, top
  <2>3. d.from \in Nat
    BY <2>2 DEF ConnType
  <2>4. Sound(d, stored)
    BY <2>1 DEF d
  <2>5. d.from <= top
    BY <2>1, <2>2, <2>3, <2>4 DEF Sound
  <2>6. d.buffer \in Seq(Nat) /\ d.snapshot \in Seq(Nat)
    BY <2>2 DEF ConnType, Numbers
  <2>7. Below(d.buffer, top) /\ Below(d.snapshot, top)
    <3>1. \A i \in DOMAIN d.buffer : d.buffer[i] \in Nat
      BY <2>6
    <3>2. \A i \in DOMAIN d.snapshot : d.snapshot[i] \in Nat
      BY <2>6
    <3>3. QED
      BY <2>1, <2>2, <2>4, <3>1, <3>2 DEF Below, Sound
  <2>8. (\E n \in Oversized : n < stored) => \E n \in Oversized : n < top
    BY <2>1, <2>2, ConnsAssumption
  <2>9. Sound(d, top)
    BY <2>2, <2>4, <2>5, <2>7, <2>8 DEF Sound
  <2>10. QED
    BY <1>1, <2>1, <2>9 DEF d, top
<1>3. ASSUME NEW c \in MuxConns PROVE Covered(conn[c], stored', Way')
  <2>1. Covered(conn[c], stored, Way) /\ stored \in Nat /\ conn[c] \in ConnType
    BY DEF Hub!Conns, ConnsInv, SessionInv
  <2> DEFINE d == conn[c]
             top == stored'
             way == Way'
  <2>2. d.from \in Nat /\ top \in Nat /\ stored <= top
    BY <2>1 DEF ConnType
  <2>3. \A n \in d.from .. top - 1 : n \in d.from .. stored - 1 \/ n \in stored .. top - 1
    <3> HIDE DEF d, top
    <3>1. QED
      BY <2>1, <2>2
  <2>4. Covered(d, stored, Way) /\ Way \subseteq way /\ \A n \in stored .. top - 1 : n \in way
    BY <2>1
  <2> HIDE DEF d, top, way
  <2>5. Covered(d, top, way)
    BY <2>3, <2>4 DEF Covered
  <2>6. QED
    BY <2>5 DEF d, top, way
<1>4. QED
  BY <1>1, <1>2, <1>3 DEF ConnsInv

LEMMA SessionStep ==
    ASSUME SessionInv, ConnsInv, Hub!Persist \/ Hub!FanOut \/ Hub!PumpReceive \/ Hub!StopAgent \/ Hub!DrainExpires
    PROVE  SessionInv' /\ ConnsInv' /\ UNCHANGED Hub!approvals
<1>1. stored \in Nat /\ channel \in Seq(Nat) /\ Len(channel) \in Nat /\ DOMAIN channel = 1 .. Len(channel)
  BY DEF Numbers, SessionInv
<1>2. UNCHANGED <<conn, staged, backlog, notices, Hub!approvals>>
  BY DEF Hub!DrainExpires, Hub!FanOut, Hub!Persist, Hub!PumpReceive, Hub!StopAgent
<1>3. CASE Hub!Persist
  <2>1. stored' = stored + 1 /\ inflight' = inflight \cup {stored} /\ UNCHANGED <<channel, hand, shed>>
    BY <1>3 DEF Hub!Persist
  <2>2. SessionInv'
    <3>1. stored' \in Nat /\ inflight' \subseteq 0 .. stored' - 1
      BY <1>1, <2>1 DEF SessionInv
    <3>2. Below(channel', stored')
      BY <1>1, <2>1 DEF Below, SessionInv
    <3>3. hand' = <<>> \/ \E n \in 0 .. stored' - 1 : hand' = <<n>>
      BY <1>1, <2>1 DEF SessionInv
    <3>4. QED
      BY <1>2, <2>1, <3>1, <3>2, <3>3 DEF SessionInv
  <2>3. Way \subseteq Way' /\ stored \in Way'
    BY <2>1 DEF Way
  <2>4. \A n \in stored .. stored' - 1 : n = stored
    BY <1>1, <2>1
  <2>5. stored' \in Nat /\ stored <= stored'
    BY <1>1, <2>1
  <2>6. ConnsInv'
    BY <1>2, <2>3, <2>4, <2>5, WayGrows
  <2>7. QED
    BY <1>2, <2>2, <2>6
<1>4. ASSUME stored' = stored, SessionInv', Way \subseteq Way'
             PROVE SessionInv' /\ ConnsInv' /\ UNCHANGED Hub!approvals
  <2>1. stored' \in Nat /\ stored <= stored' /\ \A n \in stored .. stored' - 1 : FALSE
    BY <1>1, <1>4
  <2>2. QED
    BY <1>2, <1>4, <2>1, WayGrows
<1>5. CASE Hub!FanOut
  <2>1. PICK n \in inflight :
          /\ inflight' = inflight \ {n}
          /\ \/ channel' = Append(channel, n) /\ shed' = shed
             \/ channel' = channel /\ shed' = shed \cup {n}
          /\ UNCHANGED <<stored, hand>>
    BY <1>5 DEF Hub!FanOut
  <2>2. n \in Nat /\ n < stored
    BY <1>1, <2>1 DEF SessionInv
  <2>3. CASE channel' = Append(channel, n) /\ shed' = shed
    <3>1. /\ Append(channel, n) \in Seq(Nat)
          /\ DOMAIN Append(channel, n) = 1 .. Len(channel) + 1
          /\ \A i \in 1 .. Len(channel) : Append(channel, n)[i] = channel[i]
          /\ Append(channel, n)[Len(channel) + 1] = n
      BY <1>1, <2>2, AppendOf
    <3>2. \A i \in 1 .. Len(channel) + 1 : i \in 1 .. Len(channel) \/ i = Len(channel) + 1
      BY <1>1
    <3>3. \A i \in 1 .. Len(channel) : i \in 1 .. Len(channel) + 1
      BY <1>1
    <3>4. Len(channel) + 1 \in 1 .. Len(channel) + 1
      BY <1>1
    <3> DEFINE c == Append(channel, n)
    <3>5. /\ c \in Seq(Nat) /\ DOMAIN c = 1 .. Len(channel) + 1 /\ (\A i \in 1 .. Len(channel) : c[i] = channel[i])
          /\ c[Len(channel) + 1] = n /\ channel' = c
      BY <2>3, <3>1
    <3> HIDE DEF c
    <3>6. Below(c, stored)
      BY <1>1, <2>2, <3>2, <3>5 DEF Below, SessionInv
    <3>7. SessionInv'
      BY <1>2, <2>1, <3>5, <3>6 DEF Numbers, SessionInv
    <3>8. Way \subseteq Way'
      <4>1. \A i \in DOMAIN channel : i \in DOMAIN c /\ c[i] = channel[i]
        BY <1>1, <3>3, <3>5
      <4>2. n \in {c[i] : i \in DOMAIN c}
        BY <3>4, <3>5
      <4>3. {channel[i] : i \in DOMAIN channel} \subseteq {c[i] : i \in DOMAIN c}
        BY <4>1
      <4>4. Way' = (inflight \ {n}) \cup {c[i] : i \in DOMAIN c} \cup {hand[i] : i \in DOMAIN hand} \cup shed
        BY <2>1, <2>3, <3>5 DEF Way
      <4>5. QED
        BY <4>2, <4>3, <4>4 DEF Way
    <3>9. QED
      BY <1>4, <2>1, <3>7, <3>8
  <2>4. CASE channel' = channel /\ shed' = shed \cup {n}
    <3>1. SessionInv'
      BY <1>2, <2>1, <2>4 DEF SessionInv
    <3>2. Way \subseteq Way'
      BY <2>1, <2>4 DEF Way
    <3>3. QED
      BY <1>4, <2>1, <3>1, <3>2
  <2>5. QED
    BY <2>1, <2>3, <2>4
<1>6. CASE Hub!PumpReceive
  <2>1. /\ hand = <<>> /\ channel # <<>> /\ hand' = <<Head(channel)>> /\ channel' = Tail(channel)
        /\ UNCHANGED <<stored, inflight, shed>>
    BY <1>6 DEF Hub!PumpReceive
  <2>2. /\ Tail(channel) \in Seq(Nat) /\ Len(channel) \in Nat \ {0}
        /\ DOMAIN channel = 1 .. Len(channel) /\ DOMAIN Tail(channel) = 1 .. Len(channel) - 1
        /\ \A i \in 1 .. Len(channel) - 1 : Tail(channel)[i] = channel[i + 1] /\ i + 1 \in 1 .. Len(channel)
        /\ Head(channel) = channel[1] /\ 1 \in DOMAIN channel
    BY <1>1, <2>1, TailOf
  <2> DEFINE t == Tail(channel)
             h == Head(channel)
  <2>3. /\ t \in Seq(Nat) /\ DOMAIN t = 1 .. Len(channel) - 1 /\ h = channel[1] /\ 1 \in DOMAIN channel
        /\ (\A i \in 1 .. Len(channel) - 1 : t[i] = channel[i + 1] /\ i + 1 \in 1 .. Len(channel))
        /\ channel' = t /\ hand' = <<h>>
    BY <2>1, <2>2
  <2> HIDE DEF t, h
  <2>4. h \in Nat /\ h < stored
    <3>1. channel[1] \in Nat
      BY <1>1, <2>3
    <3>2. channel[1] < stored
      BY <2>3 DEF Below, SessionInv
    <3>3. QED
      BY <2>3, <3>1, <3>2
  <2>5. h \in 0 .. stored - 1
    BY <1>1, <2>4
  <2>6. Below(t, stored)
    BY <2>2, <2>3 DEF Below, SessionInv
  <2>7. SessionInv'
    BY <1>2, <2>1, <2>3, <2>5, <2>6 DEF Numbers, SessionInv
  <2>8. Way \subseteq Way'
    <3>1. ASSUME NEW i \in DOMAIN channel PROVE channel[i] = h \/ \E j \in DOMAIN t : t[j] = channel[i]
      <4>1. CASE i = 1
        BY <2>3, <4>1
      <4>2. CASE i # 1
        <5> DEFINE j == i - 1
        <5>1. j \in 1 .. Len(channel) - 1 /\ j + 1 = i
          BY <1>1, <3>1, <4>2
        <5> HIDE DEF j
        <5>2. t[j] = channel[i] /\ j \in DOMAIN t
          BY <2>3, <5>1
        <5>3. QED
          BY <5>2
      <4>3. QED
        BY <4>1, <4>2
    <3>2. {channel[i] : i \in DOMAIN channel} \subseteq {t[j] : j \in DOMAIN t} \cup {h}
      BY <3>1
    <3> DEFINE new == <<h>>
    <3>3. h \in {new[i] : i \in DOMAIN new}
      <4>1. 1 \in DOMAIN new /\ new[1] = h
        OBVIOUS
      <4>2. QED
        BY <4>1
    <3>4. DOMAIN hand = {}
      BY <2>1
    <3> HIDE DEF new
    <3>5. Way' = inflight \cup {t[j] : j \in DOMAIN t} \cup {new[i] : i \in DOMAIN new} \cup shed
      BY <2>1, <2>3 DEF new, Way
    <3>6. QED
      BY <3>2, <3>3, <3>4, <3>5 DEF Way
  <2>9. QED
    BY <1>4, <2>1, <2>7, <2>8
<1>7. CASE Hub!StopAgent
  <2>1. UNCHANGED <<stored, inflight, channel, hand, shed>>
    BY <1>7 DEF Hub!StopAgent
  <2>2. SessionInv' /\ Way' = Way
    BY <1>2, <2>1 DEF SessionInv, Way
  <2>3. QED
    BY <1>4, <2>1, <2>2
<1>8. CASE Hub!DrainExpires
  <2>1. channel' = <<>> /\ shed' = shed \cup Hub!ToSet(channel) /\ UNCHANGED <<stored, inflight, hand>>
    BY <1>8 DEF Hub!DrainExpires
  <2>2. SessionInv'
    <3>1. channel' \in Numbers /\ Below(channel', stored')
      BY <2>1 DEF Below, Numbers
    <3>2. QED
      BY <1>2, <2>1, <3>1 DEF SessionInv
  <2>3. Way \subseteq Way'
    BY <2>1 DEF Hub!ToSet, Way
  <2>4. QED
    BY <1>4, <2>1, <2>2, <2>3
<1>9. QED
  BY <1>3, <1>5, <1>6, <1>7, <1>8

LEMMA BroadcastStep ==
    ASSUME SessionInv, ConnsInv, Hub!BroadcastSessionEvent
    PROVE  SessionInv' /\ ConnsInv' /\ UNCHANGED Hub!approvals
<1>1. UNCHANGED <<stored, inflight, channel, shed, staged, backlog, notices, Hub!approvals>> /\ hand # <<>>
      /\ hand' = <<>>
  BY DEF Hub!BroadcastSessionEvent
<1>2. PICK n \in 0 .. stored - 1 : hand = <<n>>
  BY <1>1 DEF SessionInv
<1>3. stored \in Nat /\ n \in Nat /\ n < stored
  BY <1>2 DEF SessionInv
<1>4. SessionInv'
  BY <1>1 DEF SessionInv
<1>5. Finals' = Finals /\ stored' = stored
  BY <1>1 DEF Hub!approvals, Final, Finals
<1>6. Way \subseteq Way' \cup {n}
  <2>1. \A i \in DOMAIN hand : hand[i] = n
    BY <1>2
  <2>2. QED
    BY <1>1, <2>1 DEF Way
<1> DEFINE Next1(c) == IF ~conn[c].registered \/ c \in HostConns THEN conn[c]
                       ELSE IF conn[c].buffering THEN [conn[c] EXCEPT !.buffer = Append(conn[c].buffer, n)]
                       ELSE Hub!Enqueue(conn[c], Hub!EventFrame(n))
<1>7. conn' = [c \in Hub!Conns |-> Next1(c)]
  <2>1. hand[1] = n
    BY <1>2
  <2>2. QED
    BY <2>1 DEF Hub!BroadcastSessionEvent
<1>8. ASSUME NEW c \in Hub!Conns
      PROVE  /\ Sound(Next1(c), stored) /\ Tells(Next1(c), Finals)
             /\ c \in MuxConns => Covered(Next1(c), stored, Way')
  <2> DEFINE d == conn[c]
  <2>1. Keeps(c, d) /\ d \in ConnType
    BY ConnAt
  <2>2. Sound(d, stored) /\ Tells(d, Finals)
    BY <2>1 DEF Keeps
  <2>3. CASE ~d.registered \/ c \in HostConns
    <3>1. Next1(c) = d
      BY <2>3
    <3>2. c \in MuxConns => d.stage = "new" \/ d.closed
      BY <2>2, <2>3, ConnsAssumption DEF Sound
    <3> HIDE DEF d, Next1
    <3>3. c \in MuxConns => Covered(d, stored, Way')
      BY <3>2 DEF Covered
    <3>4. QED
      BY <2>2, <3>1, <3>3
  <2>4. CASE d.registered /\ c \notin HostConns /\ d.buffering
    <3> DEFINE b == Append(d.buffer, n)
               e == [d EXCEPT !.buffer = b]
    <3>1. Next1(c) = e
      BY <2>4
    <3>2. d.buffer \in Seq(Nat)
      BY <2>1 DEF ConnType, Numbers
    <3>3. /\ b \in Seq(Nat) /\ Len(d.buffer) \in Nat /\ DOMAIN d.buffer = 1 .. Len(d.buffer)
          /\ DOMAIN b = 1 .. Len(d.buffer) + 1
          /\ \A i \in 1 .. Len(d.buffer) : b[i] = d.buffer[i]
          /\ b[Len(d.buffer) + 1] = n
      BY <1>3, <3>2, AppendOf
    <3> HIDE DEF b, d, Next1
    <3>4. \A i \in 1 .. Len(d.buffer) + 1 : i \in 1 .. Len(d.buffer) \/ i = Len(d.buffer) + 1
      BY <3>3
    <3>5. \A i \in 1 .. Len(d.buffer) : i \in 1 .. Len(d.buffer) + 1
      BY <3>3
    <3>6. Len(d.buffer) + 1 \in 1 .. Len(d.buffer) + 1
      BY <3>3
    <3>7. Below(b, stored)
      BY <1>3, <2>2, <3>3, <3>4 DEF Below, Sound
    <3>8. b \in Numbers
      BY <3>3 DEF Numbers
    <3>9. /\ e \in ConnType /\ e.got = d.got /\ e.queue = d.queue /\ e.buffer = b /\ e.snapshot = d.snapshot
             /\ e.from = d.from
          /\ e.closed = d.closed /\ e.failing = d.failing /\ e.writer = d.writer /\ e.token = d.token
          /\ e.registered = d.registered /\ e.stage = d.stage /\ e.complete = d.complete
      BY <2>1, <3>8 DEF ConnType
    <3> HIDE DEF e
    <3>10. Sound(e, stored)
      BY <2>2, <3>7, <3>9 DEF Sound
    <3>11. Tells(e, Finals)
      BY <2>2, <3>9, QuietTells
    <3>12. c \in MuxConns => Covered(e, stored, Way')
      <4>1. SUFFICES ASSUME c \in MuxConns PROVE Covered(e, stored, Way')
        OBVIOUS
      <4>2. Covered(d, stored, Way)
        BY <2>1, <4>1 DEF Keeps
      <4> DEFINE way == Way'
      <4>3. Way \subseteq way \cup {n}
        BY <1>6
      <4> HIDE DEF way
      <4>4. \E i \in DOMAIN b : b[i] = n
        BY <3>3, <3>6
      <4>5. \A m : (\E i \in DOMAIN d.buffer : d.buffer[i] = m) => \E i \in DOMAIN b : b[i] = m
        BY <3>3, <3>5
      <4>6. Covered(e, stored, way)
        BY <3>9, <4>2, <4>3, <4>4, <4>5 DEF Covered
      <4>7. QED
        BY <4>6 DEF way
    <3>13. QED
      BY <3>1, <3>10, <3>11, <3>12
  <2>5. CASE d.registered /\ c \notin HostConns /\ ~d.buffering
    <3> DEFINE f == Hub!EventFrame(n)
               e == Hub!Enqueue(d, f)
    <3>1. Next1(c) = e
      BY <2>5
    <3>2. f \in Frame /\ Within(f, stored) /\ f[1] # "resolved"
      BY <1>3 DEF Hub!EventFrame, Frame, Within
    <3> HIDE DEF d, f, Next1
    <3>3. Sound(e, stored) /\ Longer(e, d, {f})
      BY <1>3, <2>2, <3>2, EnqueueSound
    <3> HIDE DEF e
    <3>4. e \in ConnType
      BY <3>3 DEF Sound
    <3>5. Tells(e, Finals)
      BY <2>1, <2>2, <3>2, <3>3, <3>4, LongerTells
    <3>6. c \in MuxConns => Covered(e, stored, Way')
      <4>1. SUFFICES ASSUME c \in MuxConns PROVE Covered(e, stored, Way')
        OBVIOUS
      <4>2. Covered(e, stored, Way)
        BY <2>1, <3>3, <3>4, <4>1, LongerCovers DEF Keeps
      <4> DEFINE way == Way'
      <4>3. Way \subseteq way \cup {n}
        BY <1>6
      <4> HIDE DEF way
      <4>4. ~e.closed => \E i \in DOMAIN e.queue : e.queue[i] = f
        <5>1. DOMAIN e.queue = 1 .. Len(e.queue)
          BY <3>4, QueueLen
        <5>2. QED
          BY <3>3, <5>1 DEF Longer
      <4>5. Covered(e, stored, way)
        BY <4>2, <4>3, <4>4 DEF Covered, f
      <4>6. QED
        BY <4>5 DEF way
    <3>7. QED
      BY <3>1, <3>3, <3>5, <3>6
  <2>6. QED
    BY <2>3, <2>4, <2>5
<1>9. ConnsInv'
  <2> HIDE DEF Next1
  <2>1. \A c \in Hub!Conns : conn'[c] = Next1(c) /\ Next1(c) \in ConnType
    BY <1>7, <1>8 DEF Sound
  <2>2. conn' \in [Hub!Conns -> ConnType]
    BY <1>7, <2>1
  <2>3. \A c \in Hub!Conns : Sound(conn'[c], stored') /\ Tells(conn'[c], Finals')
    BY <1>5, <1>8, <2>1
  <2>4. \A c \in MuxConns : Covered(conn'[c], stored', Way')
    BY <1>5, <1>8, <2>1 DEF Hub!Conns
  <2>5. QED
    BY <2>2, <2>3, <2>4 DEF ConnsInv
<1>10. QED
  BY <1>1, <1>4, <1>9

-----------------------------------------------------------------------------
(* Approvals.                                                               *)
LEMMA FinalsGrow ==
    ASSUME \A a \in Calls, o \in Hub!Outcomes : Final(a, o) => Final(a, o)'
    PROVE  Finals \subseteq Finals'
<1>1. SUFFICES ASSUME NEW f \in Finals PROVE f \in Finals'
  OBVIOUS
<1>2. PICK a \in Calls, o \in Hub!Outcomes : f = Hub!ResolvedFrame(a, o) /\ Final(f[2], f[3])
  BY DEF Finals
<1>3. f[2] = a /\ f[3] = o
  BY <1>2 DEF Hub!ResolvedFrame
<1>4. Final(f[2], f[3])'
  <2>1. Final(a, o)
    BY <1>2, <1>3
  <2>2. Final(a, o)'
    BY <2>1
  <2>3. QED
    BY <1>3, <2>2
<1>5. QED
  BY <1>2, <1>4 DEF Finals

LEMMA ToldFinal ==
    ASSUME ConnsInv, NEW c \in Hub!Conns, NEW i \in DOMAIN Said(conn[c]), Said(conn[c])[i][1] = "resolved"
    PROVE  \E a \in Calls, o \in Hub!Outcomes : Said(conn[c])[i] = Hub!ResolvedFrame(a, o)
           /\ Said(conn[c])[i][2] = a /\ Final(a, o)
<1>1. Said(conn[c])[i] \in Finals
  BY DEF ConnsInv, Tells
<1> DEFINE f == Said(conn[c])[i]
<1>2. PICK a \in Calls, o \in Hub!Outcomes : f = Hub!ResolvedFrame(a, o) /\ Final(f[2], f[3])
  BY <1>1 DEF Finals
<1>3. f[2] = a /\ f[3] = o
  BY <1>2 DEF Hub!ResolvedFrame
<1>4. QED
  BY <1>2, <1>3

LEMMA StillConns ==
    ASSUME ConnsInv, UNCHANGED <<Hub!session, conn>>, Finals \subseteq Finals'
    PROVE  ConnsInv'
<1>1. stored' = stored /\ Way' = Way /\ conn' = conn
  BY DEF Hub!session, Way
<1>2. ASSUME NEW c \in Hub!Conns PROVE Tells(conn[c], Finals')
  <2>1. Tells(conn[c], Finals)
    BY DEF ConnsInv
  <2> DEFINE new == Finals'
  <2>2. Finals \subseteq new
    OBVIOUS
  <2> HIDE DEF new
  <2>3. Tells(conn[c], new)
    BY <2>1, <2>2 DEF Tells
  <2>4. QED
    BY <2>3 DEF new
<1>3. QED
  BY <1>1, <1>2 DEF ConnsInv

LEMMA HostsStep ==
    ASSUME SessionInv, ConnsInv, UNCHANGED Hub!session, NEW f \in Frame, Hub!ToHosts(f), Within(f, stored),
           Finals \subseteq Finals',
           \/ f[1] # "resolved"
           \/ f \in Finals' /\ \A c \in Hub!Conns : \A i \in DOMAIN Said(conn[c]) :
                 Said(conn[c])[i][1] = "resolved" => Said(conn[c])[i][2] # f[2]
    PROVE  ConnsInv'
<1>1. stored' = stored /\ Way' = Way /\ stored \in Nat
  BY DEF Hub!session, SessionInv, Way
<1> DEFINE Next1(c) == IF c \in Hub!Hosts THEN Hub!Enqueue(conn[c], f) ELSE conn[c]
<1>2. conn' = [c \in Hub!Conns |-> Next1(c)]
  BY DEF Hub!ToHosts
<1>3. ASSUME NEW c \in Hub!Conns
      PROVE  /\ Sound(Next1(c), stored) /\ Tells(Next1(c), Finals')
             /\ c \in MuxConns => Covered(Next1(c), stored, Way)
  <2> DEFINE d == conn[c]
             e == Hub!Enqueue(d, f)
             new == Finals'
  <2>1. Keeps(c, d) /\ d \in ConnType
    BY ConnAt
  <2>2. Sound(d, stored) /\ Tells(d, Finals)
    BY <2>1 DEF Keeps
  <2>3. Tells(d, new)
    <3>1. Finals \subseteq new
      OBVIOUS
    <3> HIDE DEF new, d
    <3>2. QED
      BY <2>2, <3>1 DEF Tells
  <2>4. c \in MuxConns => Covered(d, stored, Way)
    BY <2>1 DEF Keeps
  <2>5. CASE c \in Hub!Hosts
    <3>1. Next1(c) = e
      BY <2>5
    <3>2. \/ f[1] # "resolved"
          \/ f \in new /\ \A i \in DOMAIN Said(d) : Said(d)[i][1] = "resolved" => Said(d)[i][2] # f[2]
      OBVIOUS
    <3> HIDE DEF Next1, d, new
    <3>3. Sound(e, stored) /\ Longer(e, d, {f})
      BY <1>1, <2>2, EnqueueSound
    <3>4. e \in ConnType /\ (c \in MuxConns => Covered(e, stored, Way))
      BY <2>1, <2>4, <3>3, LongerCovers DEF Sound
    <3>5. Len(e.queue) <= Len(d.queue) + 1
      <4>1. \/ e = d
            \/ e = [d EXCEPT !.closed = TRUE, !.failing = TRUE]
            \/ e = [d EXCEPT !.queue = Append(d.queue, f), !.token = TRUE]
        BY <2>1, EnqueueTyped
      <4>2. Len(d.queue) \in Nat /\ d.queue \in Seq(Frame)
        BY <2>1, QueueLen
      <4>3. e.queue = d.queue \/ e.queue = Append(d.queue, f)
        <5> HIDE DEF e
        <5>1. QED
          BY <2>1, <4>1 DEF ConnType
      <4>4. Len(Append(d.queue, f)) = Len(d.queue) + 1
        <5> DEFINE q == d.queue
        <5>1. q \in Seq(Frame)
          BY <4>2
        <5> HIDE DEF q
        <5>2. Len(Append(q, f)) = Len(q) + 1
          BY <5>1
        <5>3. QED
          BY <5>2 DEF q
      <4> HIDE DEF e
      <4>5. QED
        BY <4>2, <4>3, <4>4
    <3> HIDE DEF e
    <3>6. Tells(e, new)
      <4>1. CASE f[1] # "resolved"
        BY <2>1, <2>3, <3>3, <3>4, <4>1, LongerTells
      <4>2. CASE f \in new /\ \A i \in DOMAIN Said(d) : Said(d)[i][1] = "resolved" => Said(d)[i][2] # f[2]
        BY <2>1, <2>3, <3>3, <3>4, <3>5, <4>2, ResolvedTells
      <4>3. QED
        BY <3>2, <4>1, <4>2
    <3>7. QED
      BY <3>1, <3>3, <3>4, <3>6 DEF new
  <2>6. CASE c \notin Hub!Hosts
    <3>1. Next1(c) = d
      BY <2>6
    <3> HIDE DEF Next1, d
    <3>2. QED
      BY <2>2, <2>3, <2>4, <3>1 DEF new
  <2>7. QED
    BY <2>5, <2>6
<1> HIDE DEF Next1
<1>4. \A c \in Hub!Conns : conn'[c] = Next1(c) /\ Next1(c) \in ConnType
  BY <1>2, <1>3 DEF Sound
<1>5. conn' \in [Hub!Conns -> ConnType]
  BY <1>2, <1>4
<1>6. \A c \in Hub!Conns : Sound(conn'[c], stored') /\ Tells(conn'[c], Finals')
  BY <1>1, <1>3, <1>4
<1>7. \A c \in MuxConns : Covered(conn'[c], stored', Way')
  BY <1>1, <1>3, <1>4 DEF Hub!Conns
<1>8. QED
  BY <1>5, <1>6, <1>7 DEF ConnsInv

LEMMA NoticeStep ==
    ASSUME SessionInv, ConnsInv, Hub!BroadcastNotice
    PROVE  SessionInv' /\ ConnsInv' /\ UNCHANGED Hub!approvals
<1>1. UNCHANGED <<Hub!session, staged, Hub!approvals>> /\ notices' = notices + 1 /\ notices \in Nat
      /\ stored \in Nat
  BY DEF Hub!BroadcastNotice, SessionInv
<1>2. Finals' = Finals
  BY <1>1 DEF Hub!approvals, Final, Finals
<1>3. Hub!NoticeFrame(notices) \in Notice /\ Hub!NoticeFrame(notices) \in Frame
      /\ Hub!NoticeFrame(notices)[1] = "notice"
  BY <1>1 DEF Frame, Notice, Hub!NoticeFrame
<1>4. ASSUME backlog' \in Seq(Notice) PROVE SessionInv'
  BY <1>1, <1>4 DEF SessionInv, Hub!session
<1>5. CASE Hub!Hosts = {}
  <2>1. UNCHANGED conn
    BY <1>5 DEF Hub!BroadcastNotice
  <2>2. PICK kept \in Hub!Pruned : backlog' = Append(IF Len(kept) >= BacklogLimit THEN Tail(kept)
             ELSE kept, Hub!NoticeFrame(notices))
    BY <1>5 DEF Hub!BroadcastNotice
  <2>3. kept \in Seq(Notice)
    <3>1. PICK k \in 1 .. Len(backlog) + 1 : kept = SubSeq(backlog, k, Len(backlog))
      BY DEF Hub!Pruned
    <3>2. QED
      BY <3>1, SubSeqOf DEF SessionInv
  <2> DEFINE room == IF Len(kept) >= BacklogLimit THEN Tail(kept) ELSE kept
  <2>4. room \in Seq(Notice)
    <3>1. CASE Len(kept) >= BacklogLimit
      <4>1. kept # <<>>
        BY <2>3, <3>1, LimitsAssumption
      <4>2. Tail(kept) \in Seq(Notice)
        BY <2>3, <4>1, TailOf
      <4>3. QED
        BY <3>1, <4>2
    <3>2. CASE ~(Len(kept) >= BacklogLimit)
      BY <2>3, <3>2
    <3>3. QED
      BY <3>1, <3>2
  <2>5. backlog' = Append(room, Hub!NoticeFrame(notices))
    BY <2>2
  <2> HIDE DEF room
  <2>6. backlog' \in Seq(Notice)
    BY <1>3, <2>4, <2>5, AppendOf
  <2>7. ConnsInv'
    BY <1>1, <1>2, <2>1, StillConns
  <2>8. QED
    BY <1>1, <1>4, <2>6, <2>7
<1>6. CASE Hub!Hosts # {}
  <2>1. Hub!ToHosts(Hub!NoticeFrame(notices)) /\ UNCHANGED backlog
    BY <1>6 DEF Hub!BroadcastNotice
  <2>2. ConnsInv'
    BY <1>1, <1>2, <1>3, <2>1, HostsStep DEF Within
  <2>3. backlog' \in Seq(Notice)
    BY <2>1 DEF SessionInv
  <2>4. QED
    BY <1>1, <1>4, <2>2, <2>3
<1>7. QED
  BY <1>5, <1>6

(* The calls a step does not touch.                                         *)
LEMMA OthersSettled ==
    ASSUME NEW a \in Calls, Settled(a), ask'[a] = ask[a], answer'[a] = answer[a], decided'[a] = decided[a],
           a \in pending' <=> a \in pending,
           \A o \in Hub!Outcomes \cup {"cancel"} : <<a, o>> \in resolver' <=> <<a, o>> \in resolver
    PROVE  Settled(a)' /\ \A o \in Hub!Outcomes : Final(a, o) => Final(a, o)'
<1>1. Settled(a)'
  BY DEF Hub!Decisions, Hub!Outcomes, Settled
<1>2. \A o \in Hub!Outcomes : Final(a, o) => Final(a, o)'
  BY DEF Final
<1>3. QED
  BY <1>1, <1>2

Entries == Hub!Outcomes \cup {"cancel"}
ApprovalsTyped ==
    /\ ask \in [Calls -> {"new", "stage", "broadcast", "wait", "receive", "returned"}]
    /\ pending \subseteq Calls /\ answer \in [Calls -> Hub!Decisions \cup {"none"}]
    /\ resolver \subseteq Calls \X (Hub!Outcomes \cup {"cancel"})
    /\ decided \in [Calls -> Hub!Outcomes \cup {"none"}]

(* One call moves.                                                          *)
LEMMA CallStep ==
    ASSUME ApprovalsInv, NEW a \in Calls, ApprovalsTyped', Settled(a)', \A o \in Hub!Outcomes : Final(a, o)
           => Final(a, o)',
           \A b \in Calls \ {a} : /\ ask'[b] = ask[b] /\ answer'[b] = answer[b] /\ decided'[b] = decided[b]
                                  /\ b \in pending' <=> b \in pending
                                  /\ \A o \in Entries : <<b, o>> \in resolver' <=> <<b, o>> \in resolver
    PROVE  ApprovalsInv' /\ Finals \subseteq Finals'
<1>1. \A b \in Calls : Settled(b)
  BY DEF ApprovalsInv
<1>2. ASSUME NEW b \in Calls PROVE Settled(b)' /\ \A o \in Hub!Outcomes : Final(b, o) => Final(b, o)'
  <2>1. CASE b = a
    BY <2>1
  <2>2. CASE b # a
    <3>1. /\ ask'[b] = ask[b] /\ answer'[b] = answer[b] /\ decided'[b] = decided[b]
          /\ b \in pending' <=> b \in pending
          /\ \A o \in Hub!Outcomes \cup {"cancel"} : <<b, o>> \in resolver' <=> <<b, o>> \in resolver
      BY <2>2 DEF Entries
    <3>2. QED
      BY <1>1, <3>1, OthersSettled
  <2>3. QED
    BY <2>1, <2>2
<1>3. ApprovalsInv'
  BY <1>2 DEF ApprovalsInv, ApprovalsTyped
<1>4. Finals \subseteq Finals'
  BY <1>2, FinalsGrow
<1>5. QED
  BY <1>3, <1>4

LEMMA ApprovalStep ==
    ASSUME SessionInv, ApprovalsInv, ConnsInv, NEW a \in Calls, Hub!Approval(a)
    PROVE  SessionInv' /\ ApprovalsInv' /\ ConnsInv'
<1>1. Settled(a) /\ ApprovalsTyped
  BY DEF ApprovalsInv, ApprovalsTyped
<1>2. ask[a] \in {"new", "stage", "broadcast", "wait", "receive", "returned"} /\ answer[a] \in Hub!Decisions
      \cup {"none"}
      /\ decided[a] \in Hub!Outcomes \cup {"none"} /\ a \in Calls
  BY <1>1 DEF ApprovalsTyped
<1>3. ASSUME UNCHANGED <<Hub!session, backlog, notices>>, staged' \in Seq(Calls) PROVE SessionInv'
  BY <1>3 DEF Hub!session, SessionInv
<1>4. CASE Hub!AskRegister(a)
  <2>1. /\ ask[a] = "new" /\ ask' = [ask EXCEPT ![a] = "stage"] /\ pending' = pending \cup {a}
        /\ UNCHANGED <<Hub!session, conn, staged, backlog, notices, answer, resolver, decided>>
    BY <1>4 DEF Hub!AskRegister, Hub!AskTo
  <2>2. ApprovalsTyped'
    BY <1>1, <2>1 DEF ApprovalsTyped
  <2>3. Settled(a)'
    BY <1>1, <1>2, <2>1 DEF ApprovalsTyped, Settled
  <2>4. \A o \in Hub!Outcomes : Final(a, o) => Final(a, o)'
    BY <2>1 DEF Final
  <2>5. ApprovalsInv' /\ Finals \subseteq Finals'
    BY <1>1, <2>1, <2>2, <2>3, <2>4, CallStep DEF ApprovalsTyped, Entries
  <2>6. SessionInv' /\ ConnsInv'
    <3>1. staged' \in Seq(Calls)
      BY <2>1 DEF SessionInv
    <3>2. QED
      BY <1>3, <2>1, <2>5, <3>1, StillConns
  <2>7. QED
    BY <2>5, <2>6
<1>5. CASE Hub!AskStage(a)
  <2>1. /\ ask[a] = "stage" /\ ask' = [ask EXCEPT ![a] = "broadcast"] /\ staged' = Append(staged, a)
        /\ UNCHANGED <<Hub!session, conn, backlog, notices, pending, answer, resolver, decided>>
    BY <1>5 DEF Hub!AskStage, Hub!AskTo
  <2>2. ApprovalsTyped'
    BY <1>1, <2>1 DEF ApprovalsTyped
  <2>3. Settled(a)'
    BY <1>1, <1>2, <2>1 DEF ApprovalsTyped, Settled
  <2>4. \A o \in Hub!Outcomes : Final(a, o) => Final(a, o)'
    BY <1>1, <2>1 DEF ApprovalsTyped, Final
  <2>5. ApprovalsInv' /\ Finals \subseteq Finals'
    BY <1>1, <2>1, <2>2, <2>3, <2>4, CallStep DEF ApprovalsTyped, Entries
  <2>6. SessionInv' /\ ConnsInv'
    <3>1. staged' \in Seq(Calls)
      BY <2>1, AppendOf DEF SessionInv
    <3>2. QED
      BY <1>3, <2>1, <2>5, <3>1, StillConns
  <2>7. QED
    BY <2>5, <2>6
<1>6. CASE Hub!AskBroadcast(a)
  <2>1. /\ ask[a] = "broadcast" /\ ask' = [ask EXCEPT ![a] = "wait"] /\ Hub!ToHosts(Hub!PromptFrame(a))
        /\ UNCHANGED <<Hub!session, staged, backlog, notices, pending, answer, resolver, decided>>
    BY <1>6 DEF Hub!AskBroadcast, Hub!AskTo
  <2>2. ApprovalsTyped'
    BY <1>1, <2>1 DEF ApprovalsTyped
  <2>3. Settled(a)'
    BY <1>1, <1>2, <2>1 DEF ApprovalsTyped, Settled
  <2>4. \A o \in Hub!Outcomes : Final(a, o) => Final(a, o)'
    BY <1>1, <2>1 DEF ApprovalsTyped, Final
  <2>5. ApprovalsInv' /\ Finals \subseteq Finals'
    BY <1>1, <2>1, <2>2, <2>3, <2>4, CallStep DEF ApprovalsTyped, Entries
  <2>6. SessionInv'
    <3>1. staged' \in Seq(Calls)
      BY <2>1 DEF SessionInv
    <3>2. QED
      BY <1>3, <2>1, <3>1
  <2>7. Hub!PromptFrame(a) \in Frame /\ Hub!PromptFrame(a)[1] = "request"
    BY DEF Frame, Hub!PromptFrame
  <2>8. ConnsInv'
    BY <2>1, <2>5, <2>7, HostsStep DEF Within
  <2>9. QED
    BY <2>5, <2>6, <2>8
<1>7. CASE Hub!AskAnswered(a) \/ Hub!AskReceive(a)
  <2>1. /\ ask[a] \in {"wait", "receive"} /\ answer[a] # "none" /\ ask' = [ask EXCEPT ![a] = "returned"]
        /\ decided' = [decided EXCEPT ![a] = answer[a]]
        /\ UNCHANGED <<Hub!session, conn, staged, backlog, notices, pending, answer, resolver>>
    BY <1>7 DEF Hub!AskAnswered, Hub!AskReceive, Hub!AskTo
  <2>2. ApprovalsTyped'
    BY <1>1, <1>2, <2>1 DEF ApprovalsTyped, Hub!Outcomes
  <2>3. decided'[a] = answer[a] /\ ask'[a] = "returned" /\ answer[a] \in Hub!Decisions
    BY <1>1, <1>2, <2>1 DEF ApprovalsTyped
  <2>4. decided[a] = "none"
    BY <1>1, <2>1 DEF Settled
  <2>5. Settled(a)'
    <3>1. answer[a] # "timeout" /\ a \notin pending /\ <<a, "timeout">> \notin resolver
      BY <1>1, <2>1, <2>3, <2>4 DEF Hub!Decisions, Settled
    <3>2. QED
      BY <1>1, <2>1, <2>3, <2>4, <3>1 DEF Settled
  <2>6. \A o \in Hub!Outcomes : Final(a, o) => Final(a, o)'
    BY <2>1, <2>3, <2>4 DEF Final
  <2>7. ApprovalsInv' /\ Finals \subseteq Finals'
    BY <1>1, <2>1, <2>2, <2>5, <2>6, CallStep DEF ApprovalsTyped, Entries
  <2>8. SessionInv' /\ ConnsInv'
    <3>1. staged' \in Seq(Calls)
      BY <2>1 DEF SessionInv
    <3>2. QED
      BY <1>3, <2>1, <2>7, <3>1, StillConns
  <2>9. QED
    BY <2>7, <2>8
<1>8. CASE Hub!AskTimeout(a)
  <2>1. /\ ask[a] = "wait" /\ pending' = pending \ {a}
        /\ UNCHANGED <<Hub!session, conn, staged, backlog, notices, answer>>
    BY <1>8 DEF Hub!AskTimeout
  <2>2. decided[a] = "none"
    BY <1>1, <2>1 DEF Settled
  <2>3. CASE a \in pending
    <3>1. /\ ask' = [ask EXCEPT ![a] = "returned"] /\ decided' = [decided EXCEPT ![a] = "timeout"]
          /\ resolver' = resolver \cup {<<a, "timeout">>}
      BY <1>8, <2>3 DEF Hub!AskTimeout, Hub!AskTo
    <3>2. ApprovalsTyped'
      BY <1>1, <2>1, <3>1 DEF ApprovalsTyped, Hub!Outcomes
    <3>3. ask'[a] = "returned" /\ decided'[a] = "timeout" /\ a \notin pending'
      BY <1>1, <2>1, <3>1 DEF ApprovalsTyped
    <3>4. answer[a] = "none" /\ \A o \in Entries : <<a, o>> \notin resolver
      BY <1>1, <2>3 DEF Entries, Settled
    <3>5. \A o \in Entries : <<a, o>> \in resolver' <=> o = "timeout"
      BY <3>1, <3>4 DEF Entries, Hub!Outcomes
    <3>6. Settled(a)'
      <4>1. \A o \in Hub!Decisions \cup {"cancel"} : <<a, o>> \notin resolver'
        BY <3>5 DEF Hub!Decisions, Entries, Hub!Outcomes
      <4>2. \A o, p \in Hub!Outcomes \cup {"cancel"} : <<a, o>> \in resolver' /\ <<a, p>> \in resolver' => o = p
        BY <3>5 DEF Entries
      <4>3. QED
        BY <2>1, <3>3, <3>4, <4>1, <4>2 DEF Settled
    <3>7. \A o \in Hub!Outcomes : Final(a, o) => Final(a, o)'
      BY <2>3 DEF Final
    <3>8. ApprovalsInv' /\ Finals \subseteq Finals'
      BY <1>1, <2>1, <3>1, <3>2, <3>6, <3>7, CallStep DEF ApprovalsTyped, Entries
    <3>9. staged' \in Seq(Calls)
      BY <2>1 DEF SessionInv
    <3>10. QED
      BY <1>3, <2>1, <3>8, <3>9, StillConns
  <2>4. CASE a \notin pending
    <3>1. ask' = [ask EXCEPT ![a] = "receive"] /\ UNCHANGED <<decided, resolver>> /\ pending' = pending
      BY <1>8, <2>1, <2>4 DEF Hub!AskTimeout, Hub!AskTo
    <3>2. ApprovalsTyped'
      BY <1>1, <2>1, <3>1 DEF ApprovalsTyped
    <3>3. ask'[a] = "receive"
      BY <1>1, <3>1 DEF ApprovalsTyped
    <3>4. Settled(a)'
      BY <1>1, <2>1, <2>2, <3>1, <3>3 DEF Settled
    <3>5. \A o \in Hub!Outcomes : Final(a, o) => Final(a, o)'
      BY <2>1, <3>1, <3>3 DEF Final
    <3>6. ApprovalsInv' /\ Finals \subseteq Finals'
      BY <1>1, <2>1, <3>1, <3>2, <3>4, <3>5, CallStep DEF ApprovalsTyped, Entries
    <3>7. staged' \in Seq(Calls)
      BY <2>1 DEF SessionInv
    <3>8. QED
      BY <1>3, <2>1, <3>6, <3>7, StillConns
  <2>5. QED
    BY <2>3, <2>4
<1>9. CASE Hub!CancelDeliver(a)
  <2>1. /\ <<a, "cancel">> \in resolver /\ answer' = [answer EXCEPT ![a] = "cancelled"]
        /\ resolver' = (resolver \ {<<a, "cancel">>}) \cup {<<a, "cancelled">>}
        /\ UNCHANGED <<Hub!session, conn, staged, backlog, notices, ask, pending, decided>>
    BY <1>9 DEF Hub!CancelDeliver
  <2>2. ApprovalsTyped'
    BY <1>1, <2>1 DEF ApprovalsTyped, Hub!Decisions, Hub!Outcomes
  <2>3. answer'[a] = "cancelled"
    BY <1>1, <2>1 DEF ApprovalsTyped
  <2>4. \A o \in Entries : <<a, o>> \in resolver => o = "cancel"
    BY <1>1, <2>1 DEF Entries, Settled
  <2>5. \A o \in Entries : <<a, o>> \in resolver' <=> o = "cancelled"
    BY <2>1, <2>4 DEF Entries, Hub!Outcomes
  <2>6. ask[a] # "new" /\ a \notin pending /\ answer[a] = "none" /\ decided[a] = "none"
    <3>1. ask[a] # "new" /\ a \notin pending /\ answer[a] = "none" /\ decided[a] # "timeout"
      BY <1>1, <2>1 DEF Settled
    <3>2. decided[a] \notin {"none", "timeout"} => answer[a] = decided[a]
      BY <1>1 DEF Settled
    <3>3. QED
      BY <3>1, <3>2
  <2>7. Settled(a)'
    <3>1. /\ \A o \in Hub!Decisions : <<a, o>> \in resolver' => o = "cancelled"
          /\ <<a, "cancel">> \notin resolver' /\ <<a, "timeout">> \notin resolver'
      BY <2>5 DEF Hub!Decisions, Entries, Hub!Outcomes
    <3>2. \A o, p \in Hub!Outcomes \cup {"cancel"} : <<a, o>> \in resolver' /\ <<a, p>> \in resolver' => o = p
      BY <2>5 DEF Entries
    <3>3. QED
      BY <2>1, <2>3, <2>6, <3>1, <3>2 DEF Settled
  <2>8. \A o \in Hub!Outcomes : Final(a, o) => Final(a, o)'
    BY <2>1 DEF Final
  <2>9. ApprovalsInv' /\ Finals \subseteq Finals'
    BY <1>1, <2>1, <2>2, <2>7, <2>8, CallStep DEF ApprovalsTyped, Entries
  <2>10. staged' \in Seq(Calls)
    BY <2>1 DEF SessionInv
  <2>11. QED
    BY <1>3, <2>1, <2>9, <2>10, StillConns
<1>10. ASSUME NEW dec \in Hub!Decisions, Hub!Respond(a, dec) PROVE SessionInv' /\ ApprovalsInv' /\ ConnsInv'
  <2>1. /\ a \in pending /\ pending' = pending \ {a} /\ answer' = [answer EXCEPT ![a] = dec]
        /\ resolver' = resolver \cup {<<a, dec>>}
        /\ UNCHANGED <<Hub!session, conn, staged, backlog, notices, ask, decided>>
    BY <1>10 DEF Hub!Respond
  <2>2. ApprovalsTyped'
    BY <1>1, <2>1 DEF ApprovalsTyped, Hub!Outcomes
  <2>3. answer'[a] = dec /\ dec \in Hub!Decisions /\ dec # "none" /\ dec # "timeout" /\ dec # "cancel"
    BY <1>1, <2>1 DEF ApprovalsTyped, Hub!Decisions
  <2>4. decided[a] = "none" /\ ask[a] # "new" /\ \A o \in Entries : <<a, o>> \notin resolver
    BY <1>1, <2>1 DEF Entries, Settled
  <2>5. \A o \in Entries : <<a, o>> \in resolver' <=> o = dec
    BY <2>1, <2>3, <2>4 DEF Entries, Hub!Outcomes
  <2>6. Settled(a)'
    <3>1. /\ \A o \in Hub!Decisions : <<a, o>> \in resolver' => o = dec
          /\ <<a, "cancel">> \notin resolver' /\ <<a, "timeout">> \notin resolver'
      BY <2>3, <2>5 DEF Entries, Hub!Outcomes
    <3>2. \A o, p \in Hub!Outcomes \cup {"cancel"} : <<a, o>> \in resolver' /\ <<a, p>> \in resolver' => o = p
      BY <2>5 DEF Entries
    <3>3. QED
      BY <2>1, <2>3, <2>4, <3>1, <3>2 DEF Settled
  <2>7. \A o \in Hub!Outcomes : Final(a, o) => Final(a, o)'
    BY <2>1 DEF Final
  <2>8. ApprovalsInv' /\ Finals \subseteq Finals'
    BY <1>1, <2>1, <2>2, <2>6, <2>7, CallStep DEF ApprovalsTyped, Entries
  <2>9. staged' \in Seq(Calls)
    BY <2>1 DEF SessionInv
  <2>10. QED
    BY <1>3, <2>1, <2>8, <2>9, StillConns
<1>11. ASSUME NEW o \in Hub!Outcomes, Hub!ResolvePermission(a, o) PROVE SessionInv' /\ ApprovalsInv' /\ ConnsInv'
  <2>1. /\ <<a, o>> \in resolver /\ resolver' = resolver \ {<<a, o>>} /\ Hub!ToHosts(Hub!ResolvedFrame(a, o))
           /\ staged' = Hub!Unstaged(a)
        /\ UNCHANGED <<Hub!session, backlog, notices, ask, pending, answer, decided>>
    BY <1>11 DEF Hub!ResolvePermission
  <2>2. ApprovalsTyped'
    BY <1>1, <2>1 DEF ApprovalsTyped
  <2>3. \A p \in Entries : <<a, p>> \notin resolver'
    BY <1>1, <2>1 DEF Entries, Settled
  <2>4. ask[a] # "new" /\ a \notin pending /\ (o \in Hub!Decisions => answer[a] = o)
        /\ (o = "timeout" => decided[a] = "timeout")
    BY <1>1, <2>1 DEF Entries, Settled
  <2>5. Settled(a)'
    <3>1. /\ \A p \in Hub!Decisions : <<a, p>> \notin resolver'
          /\ <<a, "cancel">> \notin resolver' /\ <<a, "timeout">> \notin resolver'
      BY <2>3 DEF Hub!Decisions, Entries, Hub!Outcomes
    <3>2. \A p, q \in Hub!Outcomes \cup {"cancel"} : <<a, p>> \notin resolver'
      BY <2>3 DEF Entries
    <3>3. QED
      BY <1>1, <2>1, <2>4, <3>1, <3>2 DEF Settled
  <2>6. Final(a, o)'
    BY <2>1, <2>3, <2>4 DEF Entries, Final
  <2>7. \A p \in Hub!Outcomes : Final(a, p) => Final(a, p)'
    BY <2>1 DEF Final
  <2>8. ApprovalsInv' /\ Finals \subseteq Finals'
    BY <1>1, <2>1, <2>2, <2>5, <2>7, CallStep DEF ApprovalsTyped, Entries
  <2>9. SessionInv'
    <3>1. staged \in Seq(Calls) /\ Len(staged) \in Nat
      BY DEF SessionInv
    <3>2. Hub!Unstaged(a) \in Seq(Calls)
      <4>1. CASE Hub!Contains(staged, a)
        <5> DEFINE i == CHOOSE k \in DOMAIN staged : staged[k] = a
        <5>1. i \in 1 .. Len(staged)
          BY <3>1, <4>1 DEF Hub!Contains
        <5>2. Hub!Unstaged(a) = SubSeq(staged, 1, i - 1) \o SubSeq(staged, i + 1, Len(staged))
          BY <4>1 DEF Hub!Unstaged
        <5> HIDE DEF i
        <5>3. SubSeq(staged, 1, i - 1) \in Seq(Calls) /\ SubSeq(staged, i + 1, Len(staged)) \in Seq(Calls)
          BY <3>1, <5>1, SubSeqOf
        <5> DEFINE s == SubSeq(staged, 1, i - 1)
                   t == SubSeq(staged, i + 1, Len(staged))
        <5>4. s \in Seq(Calls) /\ t \in Seq(Calls)
          BY <5>3
        <5> HIDE DEF s, t
        <5>5. s \o t \in Seq(Calls)
          BY <5>4
        <5>6. QED
          BY <5>2, <5>5 DEF s, t
      <4>2. CASE ~Hub!Contains(staged, a)
        BY <3>1, <4>2 DEF Hub!Unstaged
      <4>3. QED
        BY <4>1, <4>2
    <3>3. QED
      BY <1>3, <2>1, <3>2
  <2> DEFINE f == Hub!ResolvedFrame(a, o)
  <2>10. f \in Frame /\ f[1] = "resolved" /\ f[2] = a /\ f[3] = o
    BY DEF Frame, Hub!ResolvedFrame
  <2>11. f \in Finals'
    <3>1. Final(f[2], f[3])'
      BY <2>6, <2>10
    <3>2. QED
      BY <3>1 DEF Finals
  <2>12. ASSUME NEW c \in Hub!Conns, NEW i \in DOMAIN Said(conn[c]), Said(conn[c])[i][1] = "resolved"
         PROVE  Said(conn[c])[i][2] # f[2]
    <3>1. PICK b \in Calls, p \in Hub!Outcomes : Said(conn[c])[i][2] = b /\ Final(b, p)
      BY <2>12, ToldFinal
    <3>2. b # a
      BY <2>1, <3>1 DEF Final
    <3>3. QED
      BY <2>10, <3>1, <3>2
  <2>13. Hub!ToHosts(f) /\ Within(f, stored)
    BY <2>1, <2>10 DEF Within
  <2> HIDE DEF f
  <2>14. UNCHANGED Hub!session
    BY <2>1
  <2>15. ConnsInv'
    BY <2>8, <2>10, <2>11, <2>12, <2>13, <2>14, HostsStep
  <2>16. QED
    BY <2>8, <2>9, <2>15
<1>12. QED
  BY <1>4, <1>5, <1>6, <1>7, <1>8, <1>9, <1>10, <1>11 DEF Hub!Approval

LEMMA CancelStep ==
    ASSUME SessionInv, ApprovalsInv, ConnsInv, Hub!CancelSessionApprovals
    PROVE  SessionInv' /\ ApprovalsInv' /\ ConnsInv'
<1>1. /\ pending' = {} /\ resolver' = resolver \cup {<<a, "cancel">> : a \in pending}
      /\ UNCHANGED <<Hub!session, conn, staged, backlog, notices, ask, answer, decided>>
  BY DEF Hub!CancelSessionApprovals
<1>2. ApprovalsTyped'
  BY <1>1 DEF ApprovalsInv, ApprovalsTyped
<1>3. ASSUME NEW a \in Calls PROVE Settled(a)' /\ \A o \in Hub!Outcomes : Final(a, o) => Final(a, o)'
  <2>1. Settled(a)
    BY DEF ApprovalsInv
  <2>2. CASE a \in pending
    <3>1. answer[a] = "none" /\ decided[a] = "none" /\ ask[a] # "new" /\ \A o \in Entries : <<a, o>> \notin resolver
      BY <2>1, <2>2 DEF Entries, Settled
    <3>2. \A o \in Entries : <<a, o>> \in resolver' <=> o = "cancel"
      BY <1>1, <2>2, <3>1 DEF Entries
    <3>3. /\ \A o \in Hub!Decisions : <<a, o>> \notin resolver'
          /\ <<a, "timeout">> \notin resolver'
      BY <3>2 DEF Hub!Decisions, Entries, Hub!Outcomes
    <3>4. \A o, p \in Hub!Outcomes \cup {"cancel"} : <<a, o>> \in resolver' /\ <<a, p>> \in resolver' => o = p
      BY <3>2 DEF Entries
    <3>5. Settled(a)'
      BY <1>1, <3>1, <3>3, <3>4 DEF Settled
    <3>6. QED
      BY <2>2, <3>5 DEF Final
  <2>3. CASE a \notin pending
    <3>1. \A o \in Entries : <<a, o>> \in resolver' <=> <<a, o>> \in resolver
      BY <1>1, <2>3
    <3>2. QED
      BY <1>1, <2>1, <2>3, <3>1, OthersSettled DEF Entries
  <2>4. QED
    BY <2>2, <2>3
<1>4. ApprovalsInv'
  BY <1>2, <1>3 DEF ApprovalsInv, ApprovalsTyped
<1>5. Finals \subseteq Finals'
  BY <1>3, FinalsGrow
<1>6. ConnsInv'
  BY <1>1, <1>5, StillConns
<1>7. SessionInv'
  BY <1>1 DEF Hub!session, SessionInv
<1>8. QED
  BY <1>4, <1>6, <1>7

-----------------------------------------------------------------------------
LEMMA HubInit == Hub!Init => HubInv
<1> SUFFICES ASSUME Hub!Init PROVE HubInv
  OBVIOUS
<1>1. stored = 0 /\ inflight = {} /\ channel = <<>> /\ hand = <<>> /\ staged = <<>> /\ backlog = <<>> /\ notices = 0
      /\ conn = [c \in Hub!Conns |-> Hub!NewConn]
  BY DEF Hub!Init
<1>2. SessionInv
  BY <1>1 DEF Below, Numbers, SessionInv
<1>3. ApprovalsInv
  BY DEF ApprovalsInv, Hub!Decisions, Hub!Init, Settled
<1> DEFINE nothing == <<>>
           d == [stage |-> "new", registered |-> FALSE, buffering |-> FALSE, buffer |-> nothing,
                 from |-> 0, snapshot |-> nothing, complete |-> TRUE,
                 queue |-> nothing, closed |-> FALSE, failing |-> FALSE, broken |-> FALSE,
                 writer |-> "look", token |-> FALSE, got |-> nothing]
<1>4. nothing \in Numbers /\ nothing \in Frames /\ Below(nothing, 0) /\ nothing \o nothing = nothing
      /\ DOMAIN nothing = {}
  BY DEF Below, Frames, Numbers
<1>5. Hub!NewConn = d
  BY DEF Hub!NewConn
<1> HIDE DEF nothing
<1>6. d \in ConnType
  BY <1>4 DEF ConnType
<1>7. Sound(d, 0) /\ Covered(d, 0, Way)
  BY <1>4, <1>6 DEF Covered, Sound
<1>8. Tells(d, Finals)
  <2>1. Said(d) = nothing
    BY <1>4 DEF Said
  <2>2. QED
    BY <1>4, <2>1 DEF Tells
<1> HIDE DEF d
<1>9. \A c \in Hub!Conns : conn[c] = d
  BY <1>1, <1>5
<1>10. ConnsInv
  <2>1. conn \in [Hub!Conns -> ConnType]
    BY <1>1, <1>5, <1>6
  <2>2. \A c \in MuxConns : c \in Hub!Conns
    BY DEF Hub!Conns
  <2>3. QED
    BY <1>1, <1>7, <1>8, <1>9, <2>1, <2>2 DEF ConnsInv
<1>11. QED
  BY <1>2, <1>3, <1>10 DEF HubInv

LEMMA HubStep == HubInv /\ [Hub!Next]_Hub!vars => HubInv'
<1> SUFFICES ASSUME HubInv, [Hub!Next]_Hub!vars PROVE HubInv'
  OBVIOUS
<1>1. SessionInv /\ ApprovalsInv /\ ConnsInv
  BY DEF HubInv
<1>2. ASSUME UNCHANGED Hub!approvals PROVE ApprovalsInv'
  BY <1>1, <1>2 DEF Hub!approvals, ApprovalsInv, Settled
<1>3. ASSUME UNCHANGED <<Hub!session, staged, backlog, notices>> PROVE SessionInv'
  BY <1>1, <1>3 DEF Hub!session, SessionInv
<1>4. ASSUME NEW c \in Hub!Conns, Hub!Connection(c) PROVE HubInv'
  <2>1. ConnsInv' /\ UNCHANGED <<Hub!session, staged, backlog, notices, Hub!approvals>>
    BY <1>1, <1>4, ConnectionStep
  <2>2. QED
    BY <1>2, <1>3, <2>1 DEF HubInv
<1>5. ASSUME NEW c \in MuxConns,
             Hub!QueryHistory(c) \/ Hub!FinishMuxReplay(c)
             \/ \E from \in 0 .. stored : Hub!RegisterMuxPending(c, from)
      PROVE  HubInv'
  <2>1. ConnsInv' /\ UNCHANGED <<Hub!session, staged, backlog, notices, Hub!approvals>>
    BY <1>1, <1>5, FinishStep, QueryStep, RegisterMuxStep
  <2>2. QED
    BY <1>2, <1>3, <2>1 DEF HubInv
<1>6. ASSUME NEW c \in HostConns, Hub!RegisterHost(c) PROVE HubInv'
  BY <1>1, <1>2, <1>6, RegisterHostStep DEF HubInv
<1>7. CASE Hub!Persist \/ Hub!FanOut \/ Hub!PumpReceive \/ Hub!StopAgent \/ Hub!DrainExpires
  BY <1>1, <1>2, <1>7, SessionStep DEF HubInv
<1>8. CASE Hub!BroadcastSessionEvent
  BY <1>1, <1>2, <1>8, BroadcastStep DEF HubInv
<1>9. CASE Hub!BroadcastNotice
  BY <1>1, <1>2, <1>9, NoticeStep DEF HubInv
<1>10. CASE Hub!CancelSessionApprovals
  BY <1>1, <1>10, CancelStep DEF HubInv
<1>11. ASSUME NEW a \in Calls, Hub!Approval(a) PROVE HubInv'
  BY <1>1, <1>11, ApprovalStep DEF HubInv
<1>12. CASE UNCHANGED Hub!vars
  <2>1. UNCHANGED <<Hub!session, conn, staged, backlog, notices, Hub!approvals>>
    BY <1>12 DEF Hub!vars
  <2>2. Finals' = Finals
    BY <2>1 DEF Hub!approvals, Final, Finals
  <2>3. ConnsInv'
    BY <1>1, <2>1, <2>2, StillConns
  <2>4. QED
    BY <1>2, <1>3, <2>1, <2>3 DEF HubInv
<1>13. QED
  BY <1>4, <1>5, <1>6, <1>7, <1>8, <1>9, <1>10, <1>11, <1>12 DEF Hub!Next

LEMMA HubGap == HubInv => Hub!NoSilentGap
<1> SUFFICES ASSUME HubInv, NEW c \in MuxConns, conn[c].stage \in {"finish", "reading"}, ~conn[c].closed,
                    conn[c].complete,
                    NEW n \in conn[c].from .. stored - 1
             PROVE  \/ n \in inflight \cup Hub!ToSet(channel) \cup Hub!ToSet(hand) \cup shed
                    \/ n \in Hub!ToSet(conn[c].snapshot) \cup Hub!ToSet(conn[c].buffer)
                    \/ Hub!EventFrame(n) \in Hub!ToSet(conn[c].queue) \cup Hub!ToSet(conn[c].got)
  BY DEF Hub!NoSilentGap
<1>1. Covered(conn[c], stored, Way)
  BY DEF ConnsInv, HubInv
<1>2. \/ n \in Way
      \/ \E i \in DOMAIN conn[c].snapshot : conn[c].snapshot[i] = n
      \/ \E i \in DOMAIN conn[c].buffer : conn[c].buffer[i] = n
      \/ \E i \in DOMAIN conn[c].queue : conn[c].queue[i] = Hub!EventFrame(n)
      \/ \E i \in DOMAIN conn[c].got : conn[c].got[i] = Hub!EventFrame(n)
  BY <1>1 DEF Covered
<1>3. QED
  BY <1>2 DEF Hub!ToSet, Way

LEMMA HubWriter == HubInv => Hub!WriterNotStranded
BY DEF ConnsInv, HubInv, Sound, Hub!WriterNotStranded

LEMMA HubTerminal == HubInv => Hub!OneTerminalFrame
<1> SUFFICES ASSUME HubInv, NEW c \in HostConns, NEW a \in Calls
             PROVE  /\ \A i, j \in Hub!Terminal(c, a) : i = j
                    /\ decided[a] # "none"
                       => \A i \in Hub!Terminal(c, a) : Hub!Told(c)[i] = Hub!ResolvedFrame(a, decided[a])
  BY DEF Hub!OneTerminalFrame
<1>1. c \in Hub!Conns /\ Hub!Told(c) = Said(conn[c])
  BY DEF Hub!Conns, Said, Hub!Told
<1>2. ConnsInv /\ Settled(a) /\ Tells(conn[c], Finals) /\ ApprovalsTyped
  BY <1>1 DEF ApprovalsInv, ApprovalsTyped, ConnsInv, HubInv
<1>3. \A i, j \in Hub!Terminal(c, a) : i = j
  BY <1>1, <1>2 DEF Tells, Hub!Terminal
<1>4. ASSUME decided[a] # "none", NEW i \in Hub!Terminal(c, a)
             PROVE Hub!Told(c)[i] = Hub!ResolvedFrame(a, decided[a])
  <2>1. i \in DOMAIN Said(conn[c]) /\ Said(conn[c])[i][1] = "resolved" /\ Said(conn[c])[i][2] = a
    BY <1>1 DEF Hub!Terminal
  <2>2. PICK b \in Calls, o \in Hub!Outcomes : Said(conn[c])[i] = Hub!ResolvedFrame(b, o)
             /\ Said(conn[c])[i][2] = b /\ Final(b, o)
    BY <1>1, <1>2, <2>1, ToldFinal
  <2>3. b = a
    BY <2>1, <2>2
  <2>4. o = decided[a]
    BY <1>2, <1>4, <2>2, <2>3 DEF ApprovalsTyped, Hub!Decisions, Final, Hub!Outcomes, Settled
  <2>5. QED
    BY <1>1, <2>2, <2>3, <2>4
<1>5. QED
  BY <1>3, <1>4

(* Between the append of an event and the write to a mux connection no event*)
(* is lost silently, and no writer sleeps on a frame or a close (the hub of *)
(* gateway/websocket_downlink.go), for any connections, calls and limits.   *)
THEOREM HubDelivers == Hub!Spec => []DownlinkDelivers
<1>1. HubInv => Hub!NoSilentGap /\ Hub!WriterNotStranded
  BY HubGap, HubWriter
<1>2. QED
  BY <1>1, HubInit, HubStep, PTL DEF Hub!Spec, DownlinkDelivers

(* No host connection is told two outcomes of one approval, and it is told  *)
(* the one askApproval returns (resolvePermission of gateway/http_router.go *)
(* and its race with the timeout and the cancel).                           *)
THEOREM OneOutcome == Hub!Spec => []OneTerminalFrame
  BY HubInit, HubStep, HubTerminal, PTL DEF Hub!Spec, OneTerminalFrame

-----------------------------------------------------------------------------
(* Types. *)

(* A prompt's message is not also somebody else's, and "none" is neither a  *)
(* message nor an outcome.                                                  *)
NamesDistinct == Prompts \cap Followups = {} /\ "none" \notin Acp!Messages /\ "none" \notin Kinds

Reasons == {"max_tokens", "cancelled", "refusal", "end_turn"}
Places == {"new", "claimed", "rejected", "waiting", "returned"}
EndKinds == Kinds \cup {"interrupted"}
Event == [type : {"user", "update", "end"}, msg : Acp!Messages, kind : EndKinds \cup {"none"}]

BridgeTypeInv ==
    /\ prompt \in [Prompts -> Places] /\ current \in Prompts \cup {"none"}
    /\ bound \subseteq Prompts /\ byTurn \subseteq Prompts
    /\ settled \in [Prompts -> Reasons \cup {"none"}]
    /\ target \in [Cancels -> Prompts \cup {"none"}]
    /\ mailbox \in Seq(Acp!Messages) /\ turn \in Acp!Messages \cup {"none"}
    /\ ended \in [Acp!Messages -> EndKinds \cup {"none"}]
    /\ relayChannel \in Seq(Event) /\ relayShed \in BOOLEAN

LEMMA NoneIsNothing ==
    ASSUME NamesDistinct PROVE "none" \notin Acp!Messages /\ "none" \notin EndKinds /\ "none" \notin Reasons
  BY DEF NamesDistinct, EndKinds, Reasons

-----------------------------------------------------------------------------
(* The inductive invariant. *)

(* A message is in the inbox, in the running turn, or its turn has ended;   *)
(* and a prompt's message is in none of these before it was posted.         *)
OnceOnly ==
    /\ \A i, j \in DOMAIN mailbox : mailbox[i] = mailbox[j] => i = j
    /\ \A i \in DOMAIN mailbox : mailbox[i] # turn /\ ended[mailbox[i]] = "none"
    /\ turn # "none" => ended[turn] = "none"
    /\ \A p \in Prompts : prompt[p] \in {"new", "claimed", "rejected"} =>
          p # turn /\ ended[p] = "none" /\ \A i \in DOMAIN mailbox : mailbox[i] # p

(* In the channel ch, the first turn to end after position i is m's, or m's *)
(* is the running turn t.                                                   *)
NextEnd(ch, t, i, m) ==
    /\ \A j \in DOMAIN ch :
          j > i /\ ch[j].type = "end" /\ (\A k \in DOMAIN ch : i < k /\ k < j => ch[k].type # "end")
             => ch[j].msg = m
    /\ (\A j \in DOMAIN ch : j > i => ch[j].type # "end") => t = m

(* As long as the relay's channel dropped nothing, it tells how each turn   *)
(* ended, and the turn that ends next after a message is the message's own. *)
EndsTrue ==
    \A i \in DOMAIN relayChannel :
        relayChannel[i].type = "end" => relayChannel[i].kind \in EndKinds /\ ended[relayChannel[i].msg] = relayChannel[i].kind
MessagesPaired ==
    \A i \in DOMAIN relayChannel : relayChannel[i].type = "user" => NextEnd(relayChannel, turn, i, relayChannel[i].msg)

(* So it is for the message that bound the prompt, whose event the relay    *)
(* has taken out of the channel.                                            *)
BoundPaired == \A p \in bound : settled[p] = "none" => NextEnd(relayChannel, turn, 0, p)

RelayInv == ~relayShed => EndsTrue /\ MessagesPaired /\ BoundPaired

(* A bound prompt keeps the slot until it is settled.                       *)
BoundInFlight == \A p \in bound : settled[p] = "none" => current = p

BridgeInv == BridgeTypeInv /\ OnceOnly /\ RelayInv /\ BoundInFlight /\ Acp!SettledByOwnTurn

-----------------------------------------------------------------------------
(* The channel. *)

(* An event that ends no turn, put in while its turn runs.                  *)
LEMMA NextEndPut ==
    ASSUME NEW ch \in Seq(Event), NEW ev \in Event, ev.type # "end",
           NEW t, NEW u, NEW i \in Nat, NEW m, i <= Len(ch), m # "none", t = u \/ t = "none",
           NextEnd(ch, t, i, m)
    PROVE  NextEnd(Append(ch, ev), u, i, m)
<1> DEFINE new == Append(ch, ev)
<1>1. Len(new) = Len(ch) + 1 /\ new[Len(ch) + 1] = ev /\ \A j \in 1 .. Len(ch) : new[j] = ch[j]
  BY AppendProperties
<1>2. DOMAIN new = 1 .. Len(ch) + 1 /\ DOMAIN ch = 1 .. Len(ch) /\ Len(ch) \in Nat
  BY <1>1, LenProperties, AppendProperties
<1> HIDE DEF new
<1>3. ASSUME NEW j \in DOMAIN new, j > i, new[j].type = "end", \A k \in DOMAIN new : i < k /\ k < j => new[k].type # "end"
      PROVE  new[j].msg = m
  <2>1. j \in 1 .. Len(ch) /\ ch[j] = new[j]
    BY <1>1, <1>2, <1>3
  <2>2. \A k \in DOMAIN ch : i < k /\ k < j => ch[k].type # "end"
    BY <1>1, <1>2, <1>3
  <2>3. QED
    BY <2>1, <2>2, <1>2, <1>3 DEF NextEnd
<1>4. ASSUME \A j \in DOMAIN new : j > i => new[j].type # "end" PROVE u = m
  <2>1. \A j \in DOMAIN ch : j > i => ch[j].type # "end"
    BY <1>1, <1>2, <1>4
  <2>2. QED
    BY <2>1 DEF NextEnd
<1>5. QED
  BY <1>3, <1>4 DEF NextEnd, new

(* The end of the running turn.                                             *)
LEMMA NextEndEnds ==
    ASSUME NEW ch \in Seq(Event), NEW ev \in Event, ev.type = "end",
           NEW i \in Nat, NEW m, i <= Len(ch), NextEnd(ch, ev.msg, i, m)
    PROVE  NextEnd(Append(ch, ev), "none", i, m)
<1> DEFINE new == Append(ch, ev)
<1>1. Len(new) = Len(ch) + 1 /\ new[Len(ch) + 1] = ev /\ \A j \in 1 .. Len(ch) : new[j] = ch[j]
  BY AppendProperties
<1>2. DOMAIN new = 1 .. Len(ch) + 1 /\ DOMAIN ch = 1 .. Len(ch) /\ Len(ch) \in Nat
  BY <1>1, LenProperties, AppendProperties
<1> HIDE DEF new
<1>3. ASSUME NEW j \in DOMAIN new, j > i, new[j].type = "end", \A k \in DOMAIN new : i < k /\ k < j => new[k].type # "end"
      PROVE  new[j].msg = m
  <2>1. \A k \in DOMAIN ch : i < k /\ k < j => ch[k].type # "end"
    BY <1>1, <1>2, <1>3
  <2>2. CASE j = Len(ch) + 1
    BY <1>1, <1>2, <2>1, <2>2 DEF NextEnd
  <2>3. CASE j \in 1 .. Len(ch)
    BY <1>1, <1>2, <1>3, <2>1, <2>3 DEF NextEnd
  <2>4. QED
    BY <1>2, <2>2, <2>3
<1>4. \E j \in DOMAIN new : j > i /\ new[j].type = "end"
  BY <1>1, <1>2
<1>5. QED
  BY <1>3, <1>4 DEF NextEnd, new

(* The relay takes an event out.                                            *)
LEMMA NextEndTail ==
    ASSUME NEW ch \in Seq(Event), ch # <<>>, NEW t, NEW i \in Nat, NEW m, NextEnd(ch, t, i + 1, m)
    PROVE  NextEnd(Tail(ch), t, i, m)
<1> DEFINE new == Tail(ch)
<1>1. new \in Seq(Event) /\ Len(new) = Len(ch) - 1 /\ \A j \in 1 .. Len(new) : new[j] = ch[j + 1]
  BY HeadTailProperties
<1>2. DOMAIN new = 1 .. Len(new) /\ DOMAIN ch = 1 .. Len(ch) /\ Len(ch) \in Nat \ {0}
  BY <1>1, LenProperties, EmptySeq
<1> HIDE DEF new
<1>3. ASSUME NEW j \in DOMAIN new, j > i, new[j].type = "end", \A k \in DOMAIN new : i < k /\ k < j => new[k].type # "end"
      PROVE  new[j].msg = m
  <2>1. j + 1 \in DOMAIN ch /\ ch[j + 1] = new[j] /\ j + 1 > i + 1
    BY <1>1, <1>2, <1>3
  <2>2. ASSUME NEW k \in DOMAIN ch, i + 1 < k, k < j + 1 PROVE ch[k].type # "end"
    <3>1. k - 1 \in DOMAIN new /\ i < k - 1 /\ k - 1 < j /\ ch[k] = new[k - 1]
      BY <1>1, <1>2, <2>2
    <3>2. QED
      BY <3>1, <1>3
  <2>3. QED
    BY <2>1, <2>2, <1>3 DEF NextEnd
<1>4. ASSUME \A j \in DOMAIN new : j > i => new[j].type # "end" PROVE t = m
  <2>1. ASSUME NEW j \in DOMAIN ch, j > i + 1 PROVE ch[j].type # "end"
    <3>1. j - 1 \in DOMAIN new /\ i < j - 1 /\ ch[j] = new[j - 1]
      BY <1>1, <1>2, <2>1
    <3>2. QED
      BY <3>1, <1>4
  <2>2. QED
    BY <2>1 DEF NextEnd
<1>5. QED
  BY <1>3, <1>4 DEF NextEnd, new

(* If it ends no turn, what ends next stays.                                *)
LEMMA NextEndPast ==
    ASSUME NEW ch \in Seq(Event), ch # <<>>, Head(ch).type # "end", NEW t, NEW m, NextEnd(ch, t, 0, m)
    PROVE  NextEnd(ch, t, 1, m)
<1>1. Head(ch) = ch[1] /\ DOMAIN ch = 1 .. Len(ch) /\ Len(ch) \in Nat
  BY LenProperties
<1>2. QED
  BY <1>1 DEF NextEnd

-----------------------------------------------------------------------------
(* Steps that leave the agent and the relay alone. *)

(* promptInflight.settle: a reason that is there stays.                     *)
Kept == \A p \in Prompts : settled[p] # "none" => settled'[p] = settled[p]

LEMMA SettleKeeps ==
    ASSUME NamesDistinct, BridgeTypeInv, NEW p \in Prompts, NEW r \in Reasons, Acp!Settle(p, r)
    PROVE  /\ settled' \in [Prompts -> Reasons \cup {"none"}] /\ Kept
           /\ settled'[p] # "none" /\ (settled[p] = "none" => settled'[p] = r)
  BY NoneIsNothing DEF BridgeTypeInv, Acp!Settle, Kept

LEMMA StopReasons == \A kind : Acp!StopReason(kind) \in Reasons
  BY DEF Acp!StopReason, Reasons

LEMMA AsideKeeps ==
    ASSUME NamesDistinct, BridgeInv, UNCHANGED <<bound, byTurn, relayChannel, turn, relayShed, ended>>, Kept
    PROVE  RelayInv' /\ Acp!SettledByOwnTurn'
<1> BridgeTypeInv
  BY DEF BridgeInv
<1>1. RelayInv'
  <2> SUFFICES ASSUME ~relayShed PROVE (EndsTrue /\ MessagesPaired /\ BoundPaired)'
    BY DEF RelayInv
  <2>1. EndsTrue' /\ MessagesPaired'
    BY DEF BridgeInv, RelayInv, EndsTrue, MessagesPaired
  <2>2. \A p \in bound : settled'[p] = "none" => settled[p] = "none"
    BY DEF Kept, BridgeTypeInv
  <2>3. BoundPaired'
    BY <2>2 DEF BridgeInv, RelayInv, BoundPaired
  <2>4. QED
    BY <2>1, <2>3
<1>2. Acp!SettledByOwnTurn'
  <2> SUFFICES ASSUME NEW p \in byTurn, ~relayShed
               PROVE  ended[p] # "none" /\ settled'[p] = Acp!StopReason(ended[p])
    BY DEF Acp!SettledByOwnTurn
  <2>1. p \in Prompts /\ ended[p] # "none" /\ settled[p] = Acp!StopReason(ended[p])
    BY DEF BridgeInv, Acp!SettledByOwnTurn, BridgeTypeInv
  <2>2. settled'[p] = settled[p]
    BY <2>1, StopReasons, NoneIsNothing DEF Kept
  <2>3. QED
    BY <2>1, <2>2
<1>3. QED
  BY <1>1, <1>2

LEMMA PromptClaimKeeps ==
    ASSUME NamesDistinct, BridgeInv, NEW p \in Prompts, Acp!PromptClaim(p)
    PROVE  BridgeInv'
<1>1. /\ UNCHANGED <<bound, settled, byTurn, target, mailbox, turn, ended, relayChannel, relayShed>>
      /\ current' = current \/ (current = "none" /\ current' = p)
      /\ prompt[p] = "new" /\ \E at \in {"claimed", "rejected"} : prompt' = [prompt EXCEPT ![p] = at]
  BY DEF Acp!PromptClaim, Acp!cancels, Acp!agent
<1>2. BridgeTypeInv'
  BY <1>1 DEF BridgeInv, BridgeTypeInv, Places
<1>3. OnceOnly'
  <2>1. \A q \in Prompts : prompt'[q] \in {"new", "claimed", "rejected"} => prompt[q] \in {"new", "claimed", "rejected"}
    BY <1>1 DEF BridgeInv, BridgeTypeInv
  <2>2. QED
    BY <1>1, <2>1 DEF BridgeInv, OnceOnly
<1>4. RelayInv' /\ Acp!SettledByOwnTurn'
  BY <1>1, AsideKeeps DEF Kept
<1>5. BoundInFlight'
  BY <1>1, NoneIsNothing DEF BridgeInv, BoundInFlight, BridgeTypeInv, Acp!Messages
<1>6. QED
  BY <1>2, <1>3, <1>4, <1>5 DEF BridgeInv

LEMMA PromptReturnKeeps ==
    ASSUME NamesDistinct, BridgeInv, NEW p \in Prompts, Acp!PromptReturn(p)
    PROVE  BridgeInv'
<1>1. /\ UNCHANGED <<bound, settled, byTurn, target, mailbox, turn, ended, relayChannel, relayShed>>
      /\ current' = IF current = p THEN "none" ELSE current
      /\ settled[p] # "none" /\ prompt' = [prompt EXCEPT ![p] = "returned"]
  BY DEF Acp!PromptReturn, Acp!cancels, Acp!agent
<1>2. BridgeTypeInv'
  BY <1>1 DEF BridgeInv, BridgeTypeInv, Places
<1>3. OnceOnly'
  <2>1. \A q \in Prompts : prompt'[q] \in {"new", "claimed", "rejected"} => prompt[q] = prompt'[q]
    BY <1>1 DEF BridgeInv, BridgeTypeInv
  <2>2. QED
    BY <1>1, <2>1 DEF BridgeInv, OnceOnly
<1>4. RelayInv' /\ Acp!SettledByOwnTurn'
  BY <1>1, AsideKeeps DEF Kept
<1>5. BoundInFlight'
  BY <1>1 DEF BridgeInv, BoundInFlight
<1>6. QED
  BY <1>2, <1>3, <1>4, <1>5 DEF BridgeInv

(* A message is posted that was never in the inbox before.                  *)
LEMMA PostKeepsOnce ==
    ASSUME NamesDistinct, BridgeTypeInv, OnceOnly, NEW m \in Acp!Messages, mailbox' = Append(mailbox, m),
           UNCHANGED <<turn, ended>>, m # turn, ended[m] = "none", \A i \in DOMAIN mailbox : mailbox[i] # m,
           \A p \in Prompts : prompt'[p] \in {"new", "claimed", "rejected"} => p # m /\ prompt'[p] = prompt[p]
    PROVE  mailbox' \in Seq(Acp!Messages) /\ OnceOnly'
<1>1. /\ mailbox' \in Seq(Acp!Messages) /\ Len(mailbox') = Len(mailbox) + 1
      /\ mailbox'[Len(mailbox) + 1] = m /\ \A j \in 1 .. Len(mailbox) : mailbox'[j] = mailbox[j]
  BY AppendProperties DEF BridgeTypeInv
<1>2. DOMAIN mailbox' = 1 .. Len(mailbox) + 1 /\ DOMAIN mailbox = 1 .. Len(mailbox) /\ Len(mailbox) \in Nat
  BY <1>1, LenProperties DEF BridgeTypeInv
<1>3. \A i \in DOMAIN mailbox' : (i \in DOMAIN mailbox /\ mailbox'[i] = mailbox[i]) \/ (i = Len(mailbox) + 1 /\ mailbox'[i] = m)
  BY <1>1, <1>2
<1>4. \A i, j \in DOMAIN mailbox' : mailbox'[i] = mailbox'[j] => i = j
  BY <1>3 DEF OnceOnly
<1>5. \A i \in DOMAIN mailbox' : mailbox'[i] # turn /\ ended[mailbox'[i]] = "none"
  BY <1>3 DEF OnceOnly
<1>6. ASSUME NEW p \in Prompts, prompt'[p] \in {"new", "claimed", "rejected"}
      PROVE  p # turn /\ ended[p] = "none" /\ \A i \in DOMAIN mailbox' : mailbox'[i] # p
  BY <1>3, <1>6 DEF OnceOnly
<1>7. QED
  BY <1>1, <1>4, <1>5, <1>6 DEF OnceOnly

LEMMA PromptPostKeeps ==
    ASSUME NamesDistinct, BridgeInv, NEW p \in Prompts, Acp!PromptPost(p)
    PROVE  BridgeInv'
<1>1. /\ UNCHANGED <<current, bound, settled, byTurn, target, turn, ended, relayChannel, relayShed>>
      /\ mailbox' = Append(mailbox, p)
      /\ prompt[p] = "claimed" /\ prompt' = [prompt EXCEPT ![p] = "waiting"]
  BY DEF Acp!PromptPost, Acp!cancels
<1>2. mailbox' \in Seq(Acp!Messages) /\ OnceOnly'
  <2>1. p \in Acp!Messages /\ p # turn /\ ended[p] = "none" /\ \A i \in DOMAIN mailbox : mailbox[i] # p
    BY <1>1 DEF BridgeInv, OnceOnly, Acp!Messages
  <2>2. \A q \in Prompts : prompt'[q] \in {"new", "claimed", "rejected"} => q # p /\ prompt'[q] = prompt[q]
    BY <1>1 DEF BridgeInv, BridgeTypeInv
  <2>3. QED
    BY <1>1, <2>1, <2>2, PostKeepsOnce DEF BridgeInv
<1>3. BridgeTypeInv'
  BY <1>1, <1>2 DEF BridgeInv, BridgeTypeInv, Places
<1>4. RelayInv' /\ Acp!SettledByOwnTurn'
  BY <1>1, AsideKeeps DEF Kept
<1>5. BoundInFlight'
  BY <1>1 DEF BridgeInv, BoundInFlight
<1>6. QED
  BY <1>2, <1>3, <1>4, <1>5 DEF BridgeInv

LEMMA PostFollowupKeeps ==
    ASSUME NamesDistinct, BridgeInv, NEW f \in Followups, Acp!PostFollowup(f)
    PROVE  BridgeInv'
<1>1. /\ UNCHANGED <<prompt, current, bound, settled, byTurn, target, turn, ended, relayChannel, relayShed>>
      /\ mailbox' = Append(mailbox, f)
      /\ f # turn /\ ended[f] = "none" /\ \A i \in DOMAIN mailbox : mailbox[i] # f
  BY DEF Acp!PostFollowup, Acp!requests, Acp!cancels
<1>2. mailbox' \in Seq(Acp!Messages) /\ OnceOnly'
  <2>1. f \in Acp!Messages /\ \A q \in Prompts : q # f /\ prompt'[q] = prompt[q]
    BY <1>1 DEF NamesDistinct, Acp!Messages
  <2>2. QED
    BY <1>1, <2>1, PostKeepsOnce DEF BridgeInv
<1>3. BridgeTypeInv'
  BY <1>1, <1>2 DEF BridgeInv, BridgeTypeInv
<1>4. RelayInv' /\ Acp!SettledByOwnTurn'
  BY <1>1, AsideKeeps DEF Kept
<1>5. BoundInFlight'
  BY <1>1 DEF BridgeInv, BoundInFlight
<1>6. QED
  BY <1>2, <1>3, <1>4, <1>5 DEF BridgeInv

(* session/cancel settles what it read, which may have been settled since.  *)
LEMMA CancelSettleKeeps ==
    ASSUME NamesDistinct, BridgeInv, NEW k \in Cancels, Acp!CancelSettle(k)
    PROVE  BridgeInv'
<1> BridgeTypeInv
  BY DEF BridgeInv
<1>1. UNCHANGED <<prompt, current, bound, byTurn, target, mailbox, turn, ended, relayChannel, relayShed>>
  BY DEF Acp!CancelSettle, Acp!agent
<1>2. settled' \in [Prompts -> Reasons \cup {"none"}] /\ Kept
  <2>1. CASE target[k] = "none"
    BY <2>1 DEF Acp!CancelSettle, BridgeTypeInv, Kept
  <2>2. CASE target[k] # "none"
    <3>1. target[k] \in Prompts /\ "cancelled" \in Reasons /\ Acp!Settle(target[k], "cancelled")
      BY <2>2 DEF Acp!CancelSettle, BridgeTypeInv, Reasons
    <3>2. QED
      BY <3>1, SettleKeeps
  <2>3. QED
    BY <2>1, <2>2
<1>3. BridgeTypeInv' /\ OnceOnly'
  BY <1>1, <1>2 DEF BridgeInv, BridgeTypeInv, OnceOnly
<1>4. RelayInv' /\ Acp!SettledByOwnTurn'
  BY <1>1, <1>2, AsideKeeps
<1>5. BoundInFlight'
  <2>1. \A p \in bound : settled'[p] = "none" => settled[p] = "none"
    BY <1>2 DEF Kept, BridgeTypeInv
  <2>2. QED
    BY <1>1, <2>1 DEF BridgeInv, BoundInFlight
<1>6. QED
  BY <1>3, <1>4, <1>5 DEF BridgeInv

(* The session, the cancels' other steps and the permissions.               *)
Elsewhere ==
    /\ UNCHANGED <<prompt, current, bound, settled, byTurn, mailbox, turn, ended, relayChannel, relayShed>>
    /\ target' \in [Cancels -> Prompts \cup {"none"}]

LEMMA ElsewhereKeeps ==
    ASSUME NamesDistinct, BridgeInv, Elsewhere
    PROVE  BridgeInv'
<1>1. BridgeTypeInv' /\ OnceOnly' /\ BoundInFlight'
  BY DEF Elsewhere, BridgeInv, BridgeTypeInv, OnceOnly, BoundInFlight
<1>2. RelayInv' /\ Acp!SettledByOwnTurn'
  BY AsideKeeps DEF Elsewhere, Kept
<1>3. QED
  BY <1>1, <1>2 DEF BridgeInv

-----------------------------------------------------------------------------
(* The agent's steps. *)

(* What is put in a channel that has room is its last event.                *)
LEMMA DeliverPuts ==
    ASSUME BridgeTypeInv, NEW ev \in Event, Acp!Deliver(ev)
    PROVE  /\ relayChannel' \in Seq(Event) /\ relayShed' \in BOOLEAN
           /\ relayShed => relayShed'
           /\ ~relayShed' => ~relayShed /\ relayChannel' = Append(relayChannel, ev)
<1>1. Append(relayChannel, ev) \in Seq(Event)
  BY AppendProperties DEF BridgeTypeInv
<1>2. QED
  BY <1>1 DEF Acp!Deliver, BridgeTypeInv

LEMMA Appended ==
    ASSUME NEW ch \in Seq(Event), NEW ev \in Event
    PROVE  /\ DOMAIN Append(ch, ev) = 1 .. Len(ch) + 1 /\ DOMAIN ch = 1 .. Len(ch) /\ Len(ch) \in Nat
           /\ \A i \in DOMAIN Append(ch, ev) :
              (i \in DOMAIN ch /\ Append(ch, ev)[i] = ch[i]) \/ (i = Len(ch) + 1 /\ Append(ch, ev)[i] = ev)
<1> DEFINE new == Append(ch, ev)
<1>1. Len(new) = Len(ch) + 1 /\ new[Len(ch) + 1] = ev /\ \A j \in 1 .. Len(ch) : new[j] = ch[j]
  BY AppendProperties
<1>2. DOMAIN new = 1 .. Len(ch) + 1 /\ DOMAIN ch = 1 .. Len(ch) /\ Len(ch) \in Nat
  BY <1>1, LenProperties, AppendProperties
<1> HIDE DEF new
<1>3. \A i \in DOMAIN new : (i \in DOMAIN ch /\ new[i] = ch[i]) \/ (i = Len(ch) + 1 /\ new[i] = ev)
  BY <1>1, <1>2
<1>4. QED
  BY <1>2, <1>3 DEF new

(* An event that ends no turn keeps what the relay will see true; a turn it *)
(* starts is the one that ends next.                                        *)
LEMMA PutKeepsRelay ==
    ASSUME NamesDistinct, BridgeInv, NEW ev \in Event, ev.type # "end", Acp!Deliver(ev),
           turn' = turn \/ turn = "none", ev.type = "user" => turn' = ev.msg,
           UNCHANGED <<bound, settled, ended>>
    PROVE  RelayInv'
<1> BridgeTypeInv
  BY DEF BridgeInv
<1> SUFFICES ASSUME ~relayShed' PROVE (EndsTrue /\ MessagesPaired /\ BoundPaired)'
  BY DEF RelayInv
<1>1. ~relayShed /\ relayChannel' = Append(relayChannel, ev)
  BY DeliverPuts
<1>2. relayChannel \in Seq(Event) /\ EndsTrue /\ MessagesPaired /\ BoundPaired
  BY <1>1 DEF BridgeTypeInv, BridgeInv, RelayInv
<1>3. /\ DOMAIN relayChannel' = 1 .. Len(relayChannel) + 1 /\ DOMAIN relayChannel = 1 .. Len(relayChannel) /\ Len(relayChannel) \in Nat
      /\ \A i \in DOMAIN relayChannel' :
              (i \in DOMAIN relayChannel /\ relayChannel'[i] = relayChannel[i]) \/ (i = Len(relayChannel) + 1 /\ relayChannel'[i] = ev)
  BY <1>1, <1>2, Appended
<1>4. \A i \in DOMAIN relayChannel : relayChannel[i] \in Event /\ relayChannel[i].msg # "none"
  <2>1. \A i \in DOMAIN relayChannel : relayChannel[i] \in Event
    BY <1>2, <1>3, ElementOfSeq
  <2>2. QED
    BY <2>1, NoneIsNothing DEF Event
<1>5. EndsTrue'
  BY <1>2, <1>3 DEF EndsTrue
<1>6. MessagesPaired'
  <2> SUFFICES ASSUME NEW i \in DOMAIN relayChannel', relayChannel'[i].type = "user"
               PROVE  NextEnd(relayChannel', turn', i, relayChannel'[i].msg)
    BY DEF MessagesPaired
  <2>1. CASE i \in DOMAIN relayChannel /\ relayChannel'[i] = relayChannel[i]
    <3>1. NextEnd(relayChannel, turn, i, relayChannel[i].msg) /\ i \in Nat /\ i <= Len(relayChannel) /\ relayChannel[i].msg # "none"
      BY <1>2, <1>3, <1>4, <2>1 DEF MessagesPaired
    <3>2. NextEnd(Append(relayChannel, ev), turn', i, relayChannel[i].msg)
      BY <1>2, <3>1, NextEndPut
    <3>3. QED
      BY <1>1, <2>1, <3>2
  <2>2. CASE i = Len(relayChannel) + 1 /\ relayChannel'[i] = ev
    BY <1>3, <2>2 DEF NextEnd
  <2>3. QED
    BY <1>3, <2>1, <2>2
<1>7. BoundPaired'
  <2> SUFFICES ASSUME NEW p \in bound, settled[p] = "none" PROVE NextEnd(relayChannel', turn', 0, p)
    BY DEF BoundPaired
  <2>1. NextEnd(relayChannel, turn, 0, p) /\ p # "none"
    BY <1>2, NoneIsNothing DEF BoundPaired, BridgeTypeInv, Acp!Messages
  <2>2. QED
    BY <1>1, <1>2, <1>3, <2>1, NextEndPut
<1>8. QED
  BY <1>5, <1>6, <1>7

(* The rest of a step that settles nothing.                                 *)
LEMMA AnswersStay ==
    ASSUME BridgeInv, UNCHANGED <<byTurn, settled, ended>>, relayShed => relayShed'
    PROVE  Acp!SettledByOwnTurn'
  BY DEF BridgeInv, Acp!SettledByOwnTurn

LEMMA StartTurnKeeps ==
    ASSUME NamesDistinct, BridgeInv, Acp!StartTurn
    PROVE  BridgeInv'
<1> BridgeTypeInv /\ OnceOnly
  BY DEF BridgeInv
<1> DEFINE ev == [type |-> "user", msg |-> Head(mailbox), kind |-> "none"]
<1>1. /\ UNCHANGED <<prompt, current, bound, settled, byTurn, target, ended>>
      /\ turn = "none" /\ mailbox # <<>> /\ turn' = Head(mailbox) /\ mailbox' = Tail(mailbox) /\ Acp!Deliver(ev)
  BY DEF Acp!StartTurn, Acp!requests, Acp!cancels
<1>2. /\ Head(mailbox) = mailbox[1] /\ 1 \in DOMAIN mailbox /\ Head(mailbox) \in Acp!Messages
      /\ mailbox' \in Seq(Acp!Messages)
      /\ \A i \in DOMAIN mailbox' : i + 1 \in DOMAIN mailbox /\ i + 1 # 1 /\ mailbox'[i] = mailbox[i + 1]
  <2>1. mailbox \in Seq(Acp!Messages) /\ mailbox # <<>> /\ DOMAIN mailbox = 1 .. Len(mailbox) /\ Len(mailbox) \in Nat \ {0}
    BY <1>1, LenProperties, EmptySeq DEF BridgeTypeInv
  <2>2. /\ Head(mailbox) = mailbox[1] /\ Head(mailbox) \in Acp!Messages /\ mailbox' \in Seq(Acp!Messages)
        /\ Len(mailbox') = Len(mailbox) - 1 /\ \A i \in 1 .. Len(mailbox') : mailbox'[i] = mailbox[i + 1]
    BY <1>1, <2>1, HeadTailProperties
  <2>3. DOMAIN mailbox' = 1 .. Len(mailbox')
    BY <2>2, LenProperties
  <2>4. QED
    BY <2>1, <2>2, <2>3
<1>3. ev \in Event /\ ev.type = "user" /\ ev.msg = Head(mailbox)
  BY <1>2 DEF Event
<1> HIDE DEF ev
<1>4. relayChannel' \in Seq(Event) /\ relayShed' \in BOOLEAN /\ (relayShed => relayShed')
  BY <1>1, <1>3, DeliverPuts
<1>5. BridgeTypeInv'
  BY <1>1, <1>2, <1>4 DEF BridgeTypeInv
<1>6. OnceOnly'
  <2>1. \A i, j \in DOMAIN mailbox' : mailbox'[i] = mailbox'[j] => i = j
    BY <1>2 DEF OnceOnly
  <2>2. \A i \in DOMAIN mailbox' : mailbox'[i] # turn' /\ ended[mailbox'[i]] = "none"
    BY <1>1, <1>2 DEF OnceOnly
  <2>3. ended[turn'] = "none"
    BY <1>1, <1>2 DEF OnceOnly
  <2>4. ASSUME NEW p \in Prompts, prompt[p] \in {"new", "claimed", "rejected"}
        PROVE  p # turn' /\ ended[p] = "none" /\ \A i \in DOMAIN mailbox' : mailbox'[i] # p
    BY <1>1, <1>2, <2>4 DEF OnceOnly
  <2>5. QED
    BY <1>1, <2>1, <2>2, <2>3, <2>4 DEF OnceOnly
<1>7. RelayInv'
  BY <1>1, <1>3, PutKeepsRelay
<1>8. Acp!SettledByOwnTurn' /\ BoundInFlight'
  BY <1>1, <1>4, AnswersStay DEF BridgeInv, BoundInFlight
<1>9. QED
  BY <1>5, <1>6, <1>7, <1>8 DEF BridgeInv

LEMMA EmitUpdateKeeps ==
    ASSUME NamesDistinct, BridgeInv, Acp!EmitUpdate
    PROVE  BridgeInv'
<1> BridgeTypeInv
  BY DEF BridgeInv
<1> DEFINE ev == [type |-> "update", msg |-> turn, kind |-> "none"]
<1>1. UNCHANGED <<prompt, current, bound, settled, byTurn, target, mailbox, turn, ended>> /\ turn # "none" /\ Acp!Deliver(ev)
  BY DEF Acp!EmitUpdate, Acp!requests, Acp!cancels
<1>2. ev \in Event /\ ev.type = "update"
  BY <1>1 DEF Event, BridgeTypeInv
<1> HIDE DEF ev
<1>3. relayChannel' \in Seq(Event) /\ relayShed' \in BOOLEAN /\ (relayShed => relayShed')
  BY <1>1, <1>2, DeliverPuts
<1>4. BridgeTypeInv' /\ OnceOnly' /\ BoundInFlight'
  BY <1>1, <1>3 DEF BridgeInv, BridgeTypeInv, OnceOnly, BoundInFlight
<1>5. RelayInv'
  BY <1>1, <1>2, PutKeepsRelay
<1>6. Acp!SettledByOwnTurn'
  BY <1>1, <1>3, AnswersStay
<1>7. QED
  BY <1>4, <1>5, <1>6 DEF BridgeInv

LEMMA EndTurnKeeps ==
    ASSUME NamesDistinct, BridgeInv, NEW kind \in EndKinds, Acp!EndTurn(kind)
    PROVE  BridgeInv'
<1> BridgeTypeInv /\ OnceOnly
  BY DEF BridgeInv
<1> DEFINE ev == [type |-> "end", msg |-> turn, kind |-> kind]
<1>1. /\ UNCHANGED <<prompt, current, bound, settled, byTurn, target, mailbox>>
      /\ turn # "none" /\ turn' = "none" /\ ended' = [ended EXCEPT ![turn] = kind] /\ Acp!Deliver(ev)
  BY DEF Acp!EndTurn, Acp!requests, Acp!cancels
<1>2. turn \in Acp!Messages /\ ended[turn] = "none" /\ ended'[turn] = kind /\ kind # "none"
      /\ \A m \in Acp!Messages \ {turn} : ended'[m] = ended[m]
  BY <1>1, NoneIsNothing DEF BridgeTypeInv, OnceOnly
<1>3. ev \in Event /\ ev.type = "end" /\ ev.msg = turn /\ ev.kind = kind
  BY <1>2 DEF Event
<1> HIDE DEF ev
<1>4. relayChannel' \in Seq(Event) /\ relayShed' \in BOOLEAN /\ (relayShed => relayShed')
  BY <1>1, <1>3, DeliverPuts
<1>5. BridgeTypeInv'
  BY <1>1, <1>4 DEF BridgeTypeInv
<1>6. OnceOnly'
  <2>1. \A i \in DOMAIN mailbox : mailbox[i] \in Acp!Messages \ {turn, "none"}
    BY NoneIsNothing, ElementOfSeq, LenProperties DEF BridgeTypeInv, OnceOnly
  <2>2. \A p \in Prompts : p \in Acp!Messages /\ p # "none"
    BY NoneIsNothing DEF Acp!Messages
  <2>3. QED
    BY <1>1, <1>2, <2>1, <2>2 DEF OnceOnly
<1>7. RelayInv'
  <2> SUFFICES ASSUME ~relayShed' PROVE (EndsTrue /\ MessagesPaired /\ BoundPaired)'
    BY DEF RelayInv
  <2>1. ~relayShed /\ relayChannel' = Append(relayChannel, ev)
    BY <1>1, <1>3, DeliverPuts
  <2>2. relayChannel \in Seq(Event) /\ EndsTrue /\ MessagesPaired /\ BoundPaired
    BY <2>1 DEF BridgeTypeInv, BridgeInv, RelayInv
  <2>3. /\ DOMAIN relayChannel' = 1 .. Len(relayChannel) + 1 /\ DOMAIN relayChannel = 1 .. Len(relayChannel) /\ Len(relayChannel) \in Nat
        /\ \A i \in DOMAIN relayChannel' :
              (i \in DOMAIN relayChannel /\ relayChannel'[i] = relayChannel[i]) \/ (i = Len(relayChannel) + 1 /\ relayChannel'[i] = ev)
    BY <2>1, <2>2, <1>3, Appended
  <2>4. EndsTrue'
    <3> SUFFICES ASSUME NEW i \in DOMAIN relayChannel', relayChannel'[i].type = "end"
                 PROVE  relayChannel'[i].kind \in EndKinds /\ ended'[relayChannel'[i].msg] = relayChannel'[i].kind
      BY DEF EndsTrue
    <3>1. CASE i \in DOMAIN relayChannel /\ relayChannel'[i] = relayChannel[i]
      <4>1. relayChannel[i].kind \in EndKinds /\ ended[relayChannel[i].msg] = relayChannel[i].kind
        BY <2>2, <3>1 DEF EndsTrue
      <4>2. relayChannel[i].msg \in Acp!Messages \ {turn}
        <5>1. relayChannel[i] \in Event
          BY <2>2, <2>3, <3>1, ElementOfSeq
        <5>2. QED
          BY <1>2, <4>1, <5>1, NoneIsNothing DEF Event
      <4>3. QED
        BY <1>2, <3>1, <4>1, <4>2
    <3>2. CASE i = Len(relayChannel) + 1 /\ relayChannel'[i] = ev
      BY <1>2, <1>3, <3>2
    <3>3. QED
      BY <2>3, <3>1, <3>2
  <2>5. MessagesPaired'
    <3> SUFFICES ASSUME NEW i \in DOMAIN relayChannel', relayChannel'[i].type = "user"
                 PROVE  NextEnd(relayChannel', turn', i, relayChannel'[i].msg)
      BY DEF MessagesPaired
    <3>1. i \in DOMAIN relayChannel /\ relayChannel'[i] = relayChannel[i]
      BY <1>3, <2>3
    <3>2. NextEnd(relayChannel, ev.msg, i, relayChannel[i].msg) /\ i \in Nat /\ i <= Len(relayChannel)
      BY <1>3, <2>2, <2>3, <3>1 DEF MessagesPaired
    <3>3. NextEnd(Append(relayChannel, ev), "none", i, relayChannel[i].msg)
      BY <1>3, <2>2, <3>2, NextEndEnds
    <3>4. QED
      BY <1>1, <2>1, <3>1, <3>3
  <2>6. BoundPaired'
    <3> SUFFICES ASSUME NEW p \in bound, settled[p] = "none" PROVE NextEnd(relayChannel', turn', 0, p)
      BY <1>1 DEF BoundPaired
    <3>1. NextEnd(relayChannel, ev.msg, 0, p) /\ 0 <= Len(relayChannel)
      BY <1>3, <2>2, <2>3 DEF BoundPaired
    <3>2. QED
      BY <1>1, <1>3, <2>1, <2>2, <3>1, NextEndEnds
  <2>7. QED
    BY <2>4, <2>5, <2>6
<1>8. Acp!SettledByOwnTurn'
  <2> SUFFICES ASSUME NEW p \in byTurn, ~relayShed
               PROVE  ended'[p] # "none" /\ settled[p] = Acp!StopReason(ended'[p])
    BY <1>1, <1>4 DEF Acp!SettledByOwnTurn
  <2>1. p \in Acp!Messages /\ ended[p] # "none" /\ settled[p] = Acp!StopReason(ended[p])
    BY DEF BridgeInv, Acp!SettledByOwnTurn, BridgeTypeInv, Acp!Messages
  <2>2. ended'[p] = ended[p]
    BY <1>2, <2>1
  <2>3. QED
    BY <2>1, <2>2
<1>9. BoundInFlight'
  BY <1>1 DEF BridgeInv, BoundInFlight
<1>10. QED
  BY <1>5, <1>6, <1>7, <1>8, <1>9 DEF BridgeInv

-----------------------------------------------------------------------------
(* The relay's steps. *)

(* What remains in the channel stays true of what comes next.               *)
LEMMA TailKeeps ==
    ASSUME BridgeInv, relayChannel # <<>>, relayChannel' = Tail(relayChannel), UNCHANGED <<turn, ended, relayShed>>
    PROVE  /\ relayChannel' \in Seq(Event)
           /\ Head(relayChannel) = relayChannel[1] /\ 1 \in DOMAIN relayChannel /\ Head(relayChannel) \in Event
           /\ ~relayShed => EndsTrue' /\ MessagesPaired'
<1>1. relayChannel \in Seq(Event) /\ DOMAIN relayChannel = 1 .. Len(relayChannel) /\ Len(relayChannel) \in Nat \ {0}
  BY LenProperties, EmptySeq DEF BridgeInv, BridgeTypeInv
<1>2. /\ relayChannel' \in Seq(Event) /\ Head(relayChannel) = relayChannel[1] /\ Head(relayChannel) \in Event
      /\ Len(relayChannel') = Len(relayChannel) - 1 /\ \A i \in 1 .. Len(relayChannel') : relayChannel'[i] = relayChannel[i + 1]
  BY <1>1, HeadTailProperties
<1>3. \A i \in DOMAIN relayChannel' : i \in Nat /\ i + 1 \in DOMAIN relayChannel /\ relayChannel'[i] = relayChannel[i + 1]
  BY <1>1, <1>2, LenProperties
<1>4. ASSUME ~relayShed PROVE EndsTrue' /\ MessagesPaired'
  <2>1. EndsTrue'
    BY <1>3, <1>4 DEF EndsTrue, BridgeInv, RelayInv
  <2>2. ASSUME NEW i \in DOMAIN relayChannel', relayChannel'[i].type = "user"
        PROVE  NextEnd(relayChannel', turn', i, relayChannel'[i].msg)
    <3>1. NextEnd(relayChannel, turn, i + 1, relayChannel'[i].msg) /\ i \in Nat
      BY <1>3, <1>4, <2>2 DEF BridgeInv, RelayInv, MessagesPaired
    <3>2. NextEnd(Tail(relayChannel), turn, i, relayChannel'[i].msg)
      BY <1>1, <3>1, NextEndTail
    <3>3. QED
      BY <3>2
  <2>3. MessagesPaired'
    BY <2>2 DEF MessagesPaired
  <2>4. QED
    BY <2>1, <2>3
<1>5. QED
  BY <1>1, <1>2, <1>4

(* A prompt that is bound stays the one whose turn ends next when the relay *)
(* passes an event that ends none.                                          *)
LEMMA PassKeepsBound ==
    ASSUME BridgeTypeInv, relayChannel # <<>>, Head(relayChannel).type # "end", NEW p, NextEnd(relayChannel, turn, 0, p)
    PROVE  NextEnd(Tail(relayChannel), turn, 0, p)
  BY NextEndPast, NextEndTail DEF BridgeTypeInv

(* The message of the prompt in flight binds it.                            *)
LEMMA RelayMessageKeeps ==
    ASSUME NamesDistinct, BridgeInv, Acp!RelayMessage
    PROVE  BridgeInv'
<1> BridgeTypeInv
  BY DEF BridgeInv
<1>1. /\ UNCHANGED <<prompt, current, settled, byTurn, target, mailbox, turn, ended, relayShed>>
      /\ relayChannel # <<>> /\ Head(relayChannel).type = "user" /\ relayChannel' = Tail(relayChannel)
      /\ bound' = IF current # "none" /\ Head(relayChannel).msg = current THEN bound \cup {current} ELSE bound
  BY DEF Acp!RelayMessage, Acp!cancels
<1>2. /\ relayChannel' \in Seq(Event) /\ Head(relayChannel) = relayChannel[1] /\ 1 \in DOMAIN relayChannel
      /\ ~relayShed => EndsTrue' /\ MessagesPaired'
  BY <1>1, TailKeeps
<1>3. BridgeTypeInv' /\ OnceOnly'
  BY <1>1, <1>2 DEF BridgeInv, BridgeTypeInv, OnceOnly
<1>4. BoundInFlight'
  BY <1>1 DEF BridgeInv, BoundInFlight
<1>5. ASSUME ~relayShed, NEW p \in bound', settled[p] = "none" PROVE NextEnd(relayChannel', turn', 0, p)
  <2>1. CASE p \in bound
    <3>1. NextEnd(relayChannel, turn, 0, p)
      BY <1>5, <2>1 DEF BridgeInv, RelayInv, BoundPaired
    <3>2. QED
      BY <1>1, <3>1, PassKeepsBound
  <2>2. CASE p = relayChannel[1].msg
    <3>1. NextEnd(relayChannel, turn, 0 + 1, p) /\ relayChannel \in Seq(Event)
      BY <1>1, <1>2, <1>5, <2>2 DEF BridgeInv, RelayInv, MessagesPaired, BridgeTypeInv
    <3>2. NextEnd(Tail(relayChannel), turn, 0, p)
      BY <1>1, <3>1, NextEndTail
    <3>3. QED
      BY <1>1, <3>2
  <2>3. QED
    BY <1>1, <1>2, <2>1, <2>2
<1>6. RelayInv'
  BY <1>1, <1>2, <1>5 DEF RelayInv, BoundPaired
<1>7. Acp!SettledByOwnTurn'
  BY <1>1, AnswersStay
<1>8. QED
  BY <1>3, <1>4, <1>6, <1>7 DEF BridgeInv

LEMMA RelayUpdateKeeps ==
    ASSUME NamesDistinct, BridgeInv, Acp!RelayUpdate
    PROVE  BridgeInv'
<1> BridgeTypeInv
  BY DEF BridgeInv
<1>1. /\ UNCHANGED <<prompt, current, bound, settled, byTurn, target, mailbox, turn, ended, relayShed>>
      /\ relayChannel # <<>> /\ Head(relayChannel).type = "update" /\ relayChannel' = Tail(relayChannel)
  BY DEF Acp!RelayUpdate, Acp!requests, Acp!cancels
<1>2. relayChannel' \in Seq(Event) /\ (~relayShed => EndsTrue' /\ MessagesPaired')
  BY <1>1, TailKeeps
<1>3. BridgeTypeInv' /\ OnceOnly' /\ BoundInFlight'
  BY <1>1, <1>2 DEF BridgeInv, BridgeTypeInv, OnceOnly, BoundInFlight
<1>4. ASSUME ~relayShed, NEW p \in bound, settled[p] = "none" PROVE NextEnd(relayChannel', turn', 0, p)
  <2>1. NextEnd(relayChannel, turn, 0, p)
    BY <1>4 DEF BridgeInv, RelayInv, BoundPaired
  <2>2. QED
    BY <1>1, <2>1, PassKeepsBound
<1>5. RelayInv'
  BY <1>1, <1>2, <1>4 DEF RelayInv, BoundPaired
<1>6. Acp!SettledByOwnTurn'
  BY <1>1, AnswersStay
<1>7. QED
  BY <1>3, <1>5, <1>6 DEF BridgeInv

(* The end that settles a bound prompt is its own turn's.                   *)
LEMMA RelayTurnEndKeeps ==
    ASSUME NamesDistinct, BridgeInv, Acp!RelayTurnEnd
    PROVE  BridgeInv'
<1> BridgeTypeInv
  BY DEF BridgeInv
<1>1. /\ UNCHANGED <<prompt, current, bound, target, mailbox, turn, ended, relayShed>>
      /\ relayChannel # <<>> /\ Head(relayChannel).type = "end" /\ relayChannel' = Tail(relayChannel)
  BY DEF Acp!RelayTurnEnd, Acp!cancels
<1>2. /\ relayChannel' \in Seq(Event) /\ Head(relayChannel) = relayChannel[1] /\ 1 \in DOMAIN relayChannel
      /\ ~relayShed => EndsTrue' /\ MessagesPaired'
  BY <1>1, TailKeeps
<1>3. CASE ~(current # "none" /\ current \in bound)
  <2>1. UNCHANGED <<settled, byTurn>>
    BY <1>3 DEF Acp!RelayTurnEnd
  <2>2. BridgeTypeInv' /\ OnceOnly' /\ BoundInFlight'
    BY <1>1, <1>2, <2>1 DEF BridgeInv, BridgeTypeInv, OnceOnly, BoundInFlight
  <2>3. \A p \in bound : settled[p] # "none"
    BY <1>3, NoneIsNothing DEF BridgeInv, BoundInFlight, BridgeTypeInv, Acp!Messages
  <2>4. RelayInv'
    BY <1>1, <1>2, <2>1, <2>3 DEF RelayInv, BoundPaired
  <2>5. Acp!SettledByOwnTurn'
    BY <1>1, <2>1, AnswersStay
  <2>6. QED
    BY <2>2, <2>4, <2>5 DEF BridgeInv
<1>4. CASE current # "none" /\ current \in bound
  <2> DEFINE reason == Acp!StopReason(Head(relayChannel).kind)
  <2>1. /\ current \in Prompts /\ reason \in Reasons /\ Acp!Settle(current, reason)
        /\ byTurn' = IF settled[current] = "none" THEN byTurn \cup {current} ELSE byTurn
    BY <1>4, StopReasons DEF Acp!RelayTurnEnd, BridgeTypeInv
  <2>2. /\ settled' \in [Prompts -> Reasons \cup {"none"}] /\ Kept
        /\ settled'[current] # "none" /\ (settled[current] = "none" => settled'[current] = reason)
    BY <2>1, SettleKeeps
  <2>3. \A p \in bound : settled'[p] # "none"
    BY <2>2 DEF BridgeInv, BoundInFlight, BridgeTypeInv, Kept
  <2>4. BridgeTypeInv' /\ OnceOnly'
    BY <1>1, <1>2, <2>1, <2>2 DEF BridgeInv, BridgeTypeInv, OnceOnly
  <2>5. BoundInFlight'
    BY <1>1, <2>3 DEF BoundInFlight
  <2>6. RelayInv'
    BY <1>1, <1>2, <2>3 DEF RelayInv, BoundPaired
  <2>7. ASSUME ~relayShed, settled[current] = "none"
        PROVE  ended[current] # "none" /\ settled'[current] = Acp!StopReason(ended[current])
    <3>1. NextEnd(relayChannel, turn, 0, current) /\ EndsTrue
      BY <1>4, <2>7 DEF BridgeInv, RelayInv, BoundPaired
    <3>2. DOMAIN relayChannel = 1 .. Len(relayChannel)
      BY LenProperties DEF BridgeTypeInv
    <3>3. relayChannel[1].msg = current
      BY <1>1, <1>2, <3>1, <3>2 DEF NextEnd
    <3>4. relayChannel[1].kind \in EndKinds /\ ended[current] = relayChannel[1].kind
      BY <1>1, <1>2, <3>1, <3>3 DEF EndsTrue
    <3>5. QED
      BY <1>2, <2>2, <2>7, <3>4, NoneIsNothing
  <2>8. ASSUME NEW p \in byTurn, ~relayShed
        PROVE  ended[p] # "none" /\ settled'[p] = Acp!StopReason(ended[p])
    <3>1. p \in Prompts /\ ended[p] # "none" /\ settled[p] = Acp!StopReason(ended[p])
      BY <2>8 DEF BridgeInv, Acp!SettledByOwnTurn, BridgeTypeInv
    <3>2. settled'[p] = settled[p]
      BY <2>2, <3>1, StopReasons, NoneIsNothing DEF Kept
    <3>3. QED
      BY <3>1, <3>2
  <2>9. Acp!SettledByOwnTurn'
    BY <1>1, <2>1, <2>7, <2>8 DEF Acp!SettledByOwnTurn
  <2>10. QED
    BY <2>4, <2>5, <2>6, <2>9 DEF BridgeInv
<1>5. QED
  BY <1>3, <1>4

-----------------------------------------------------------------------------
(* The theorem. *)

LEMMA InitHolds == ASSUME NamesDistinct PROVE Acp!Init => BridgeInv
<1> SUFFICES ASSUME Acp!Init PROVE BridgeInv
  OBVIOUS
<1>1. BridgeTypeInv
  BY EmptySeq DEF Acp!Init, BridgeTypeInv, Places
<1>2. OnceOnly
  BY NoneIsNothing DEF Acp!Init, OnceOnly, Acp!Messages
<1>3. RelayInv /\ BoundInFlight /\ Acp!SettledByOwnTurn
  BY DEF Acp!Init, RelayInv, EndsTrue, MessagesPaired, BoundPaired, BoundInFlight, Acp!SettledByOwnTurn
<1>4. QED
  BY <1>1, <1>2, <1>3 DEF BridgeInv

LEMMA StepKeeps == ASSUME NamesDistinct PROVE BridgeInv /\ [Acp!Next]_Acp!vars => BridgeInv'
<1> SUFFICES ASSUME BridgeInv, [Acp!Next]_Acp!vars PROVE BridgeInv'
  OBVIOUS
<1> BridgeTypeInv
  BY DEF BridgeInv
<1> USE DEF Acp!requests, Acp!agent, Acp!cancels
<1>1. ASSUME Elsewhere PROVE BridgeInv'
  BY <1>1, ElsewhereKeeps
<1>2. CASE Acp!LinkFails \/ Acp!MountInlineMCP \/ Acp!StartAgent \/ Acp!OpenSession
  <2>1. Elsewhere
    BY <1>2 DEF Acp!LinkFails, Acp!MountInlineMCP, Acp!StartAgent, Acp!OpenSession, Elsewhere, BridgeTypeInv
  <2>2. QED
    BY <1>1, <2>1
<1>3. ASSUME NEW p \in Prompts, Acp!PromptClaim(p) \/ Acp!PromptPost(p) \/ Acp!PromptReturn(p) PROVE BridgeInv'
  BY <1>3, PromptClaimKeeps, PromptPostKeeps, PromptReturnKeeps
<1>4. ASSUME NEW k \in Cancels, Acp!CancelRead(k) PROVE BridgeInv'
  <2>1. Elsewhere
    BY <1>4 DEF Acp!CancelRead, Elsewhere, BridgeTypeInv
  <2>2. QED
    BY <1>1, <2>1
<1>5. ASSUME NEW k \in Cancels, Acp!CancelSettle(k) PROVE BridgeInv'
  BY <1>5, CancelSettleKeeps
<1>6. ASSUME NEW k \in Cancels, Acp!CancelAbort(k) PROVE BridgeInv'
  <2>1. Elsewhere
    BY <1>6 DEF Acp!CancelAbort, Elsewhere, BridgeTypeInv
  <2>2. QED
    BY <1>1, <2>1
<1>7. ASSUME NEW f \in Followups, Acp!PostFollowup(f) PROVE BridgeInv'
  BY <1>7, PostFollowupKeeps
<1>8. CASE Acp!StartTurn \/ Acp!EmitUpdate
  BY <1>8, StartTurnKeeps, EmitUpdateKeeps
<1>9. ASSUME NEW kind \in Kinds \cup {"interrupted"}, Acp!EndTurn(kind) PROVE BridgeInv'
  BY <1>9, EndTurnKeeps DEF EndKinds
<1>10. CASE Acp!RelayMessage \/ Acp!RelayUpdate \/ Acp!RelayTurnEnd
  BY <1>10, RelayMessageKeeps, RelayUpdateKeeps, RelayTurnEndKeeps
<1>11. ASSUME NEW q \in Permissions, Acp!AskPermission(q) \/ Acp!ResolveTake(q) \/ Acp!PermissionReturns(q) PROVE BridgeInv'
  <2>1. Elsewhere
    BY <1>11 DEF Acp!AskPermission, Acp!ResolveTake, Acp!PermissionReturns, Elsewhere, BridgeTypeInv
  <2>2. QED
    BY <1>1, <2>1
<1>12. ASSUME NEW q \in Permissions, NEW d \in {"allow", "deny", "cancelled"}, Acp!ResolveSend(q, d) PROVE BridgeInv'
  <2>1. Elsewhere
    BY <1>12 DEF Acp!ResolveSend, Elsewhere, BridgeTypeInv
  <2>2. QED
    BY <1>1, <2>1
<1>13. CASE UNCHANGED Acp!vars
  <2>1. Elsewhere
    BY <1>13 DEF Acp!vars, Elsewhere, BridgeTypeInv
  <2>2. QED
    BY <1>1, <2>1
<1>14. QED
  BY <1>2, <1>3, <1>4, <1>5, <1>6, <1>7, <1>8, <1>9, <1>10, <1>11, <1>12, <1>13 DEF Acp!Next

(* An editor's prompt that a turn/end answers is answered by the end of the *)
(* turn its own message started, as long as the relay's lossy channel       *)
(* dropped nothing: whatever turns of cancelled prompts and follow-ups end  *)
(* while it waits, in relayEvents' rule that a user message binds and the   *)
(* next turn/end settles (promptInflight.settle of acp/server.go).          *)
THEOREM PromptsGetTheirOwnEnd == Acp!Spec => []SettledByOwnTurn
<1>1. NamesDistinct
  BY NamesAssumption DEF NamesDistinct, Acp!Messages
<1>2. Acp!Init => BridgeInv
  BY <1>1, InitHolds
<1>3. BridgeInv /\ [Acp!Next]_Acp!vars => BridgeInv'
  BY <1>1, StepKeeps
<1>4. BridgeInv => SettledByOwnTurn
  BY DEF BridgeInv, SettledByOwnTurn
<1>5. QED
  BY <1>2, <1>3, <1>4, PTL DEF Acp!Spec
==============================================================================
