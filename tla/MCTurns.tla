------------------------------- MODULE MCTurns -------------------------------
(***************************************************************************)
(* What one agent turn is made of, each part explored on its own: the tool *)
(* loop, the spending all callers share, the saved configuration, and the  *)
(* requests of the owner's devices.                                        *)
(***************************************************************************)
EXTENDS AgentLoop, SharedSpending, Configuration, Conversations

CONSTANTS d1, d2, t1, t2     \* two devices, two identities of a request

VARIABLE part     \* which of the independent components moves

turnVars == <<loopVars, spendVars, configVars, conversationVars, part>>

MCPrice == <<2, 1>>
\* One policy whose ceilings bind, and spending paused with no ceiling.
MCPolicies == {[paused |-> FALSE, enforce |-> TRUE, slots |-> 2, daily |-> 4, lifetime |-> 7],
               [paused |-> TRUE, enforce |-> FALSE, slots |-> 1, daily |-> 0, lifetime |-> 0]}

----------------------------------------------------------------------------
\* The devices: requests that are repeated, edited and regenerated over a stored
\* timeline; the page of a timeline that was imported; a stream being followed.
Turn(keep, regenerate, withFiles, asRoom) == [keep |-> keep, regenerate |-> regenerate, files |-> withFiles, room |-> asRoom]
Saying == Turn(-1, FALSE, TRUE, FALSE)
TheBodies == {Saying, Turn(-1, FALSE, FALSE, TRUE), Turn(0, FALSE, FALSE, TRUE), Turn(1, TRUE, FALSE, TRUE), Turn(1, TRUE, FALSE, FALSE), Turn(2, FALSE, FALSE, FALSE)}
Owned == Message("user", FALSE, 0)
Replied == Message("assistant", FALSE, 0)
Seed == Message("user", TRUE, 0)
TheImported == {<<>>, <<Owned, Replied>>, <<Seed, Replied>>, <<Seed, Seed, Replied>>, <<Seed, Owned>>}
\* One device, every request sent once.
SentOnce ==
  /\ asking'[d2] = Calm
  /\ asking[d1].pc = "idle" /\ asking'[d1] # asking[d1] => asking'[d1].pc # "idle" /\ ~turns[asking'[d1].id].made
AskingOnly(S) == \A c \in Clients : asking'[c].pc # "idle" => asking'[c].body \in S
RoundsNever(S) == \A i \in DOMAIN rounds' : rounds'[i].status \notin S

RetryPart ==
  /\ ConversationsNext /\ UNCHANGED watch /\ contributions' = <<>> /\ clientDeaths' + files'.uploaded <= 1
  /\ asking'[d1].pc # "idle" => asking'[d1].id = t1 /\ asking'[d1].body \in {Saying, Turn(1, TRUE, FALSE, TRUE)}
  /\ asking'[d2].pc # "idle" => <<asking'[d2].id, asking'[d2].body>> \in {<<t1, Saying>>, <<t2, Turn(0, FALSE, FALSE, TRUE)>>}
  /\ RoundsNever({"partial", "reconciling"})
PagePart ==
  /\ ConversationsNext /\ SentOnce /\ UNCHANGED <<files, clientDeaths, watch>> /\ ~room'.removed
  /\ AskingOnly(TheBodies \ {Saying}) /\ RoundsNever({"partial", "cancelled", "reconciling"})
StreamPart ==
  /\ ConversationsNext /\ SentOnce /\ UNCHANGED <<files, clientDeaths>> /\ ~room'.removed
  /\ AskingOnly({Turn(-1, FALSE, FALSE, TRUE)}) /\ RoundsNever({"partial", "reconciling"})

----------------------------------------------------------------------------
TurnsInit ==
  /\ LoopInit /\ SpendInit /\ ConfigInit /\ ConversationsInit
  /\ part \in {"loop", "spending", "configuration", "retry", "page", "stream"}
  /\ part # "loop" => mcp.inc = 0
  /\ part # "spending" => policy.paused
  /\ part = "retry" => timeline = <<Owned, Replied>>
  /\ part \notin {"retry", "page"} => timeline = <<>>

TurnsNext ==
  /\ UNCHANGED part
  /\ \/ part = "loop" /\ LoopNext /\ UNCHANGED <<spendVars, configVars, conversationVars>>
     \/ part = "spending" /\ SpendNext /\ UNCHANGED <<loopVars, configVars, conversationVars>>
     \/ part = "configuration" /\ ConfigNext /\ UNCHANGED <<loopVars, spendVars, conversationVars>>
     \/ /\ \/ part = "retry" /\ RetryPart
           \/ part = "page" /\ PagePart
           \/ part = "stream" /\ StreamPart
        /\ UNCHANGED <<loopVars, spendVars, configVars>>

TurnsSpec == TurnsInit /\ [][TurnsNext]_turnVars
=============================================================================
