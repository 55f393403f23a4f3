------------------------------ MODULE MCWorkers ------------------------------
(***************************************************************************)
(* What runs inside an admitted round, each component explored on its own: *)
(* the allowance its model calls draw on, the dialogue of its agents, the  *)
(* turn of the Warden, its terminal, and the browser the agents share.     *)
(***************************************************************************)
EXTENDS CoordinationBudget, Dialogue, Warden, Fronts

CONSTANTS
  p1, p2, p3, q1,    \* three agents and a question; the owner stops replies
  r1, r2, web,       \* two requests to the browser, the public profile
  w1, w2             \* two terminals
VARIABLE part                \* which of the independent components moves

workerVars == <<vars, dialogueVars, wardenVars, browserVars, terminalVars, part>>

\* Two runs of one owner, overlapping calls in the first.
MCRunOf == [c \in Calls |-> IF c = "b1" THEN "b" ELSE "a"]
MCTokens == [c \in Calls |-> IF c = "a2" THEN 2 ELSE 1]
MCLimits == [r \in Runs |-> [calls |-> 3, tokens |-> 3, money |-> 2,
                             conc |-> 1, enforce |-> (r = "b")]]
\* One owner slot with daily allowances that bind; two slots, but paused.
MCPolicies == {[paused |-> FALSE, enforce |-> TRUE, calls |-> 2, tokens |-> 3, conc |-> 1],
               [paused |-> TRUE, enforce |-> FALSE, calls |-> 0, tokens |-> 0, conc |-> 2]}

WorkersInit ==
  /\ Init /\ DialogueInit /\ WardenInit /\ FrontsInit
  /\ part \in {"budget", "dialogue", "lap", "heard", "talk", "portal", "tabs",
               "records", "pair", "keys", "picker"}
  /\ part # "budget" => policy.paused
  /\ jars = [p \in Profiles |-> IF part \in {"portal", "tabs"} THEN "signed" ELSE "absent"]
  /\ part # "dialogue" => lead = p1 /\ members = {p1}

\* The Warden: one turn with every tool, one while the operator types, or two
\* turns of two laps with the cheapest tool.
WardenPart ==
  \/ part = "lap" /\ prompts' <= 1 /\ UNCHANGED unsaid
  \/ part = "heard" /\ prompts' <= 1 /\ lapAt' \notin ToolKinds \ {"run"}
  \/ part = "talk" /\ budget'.work <= 2 /\ lapAt' \notin ToolKinds \ {"memory"} /\ UNCHANGED unsaid

\* The browser: one profile whose page signs in and is reaped, or several tabs.
BrowserPart ==
  \/ /\ part = "portal" /\ BrowserNext
     /\ \A s \in SessionIds : /\ Len(browsers'[s].pages) <= 1
                              /\ browsers'[s].active = browsers[s].active \/ browsers[s].pages # browsers'[s].pages
     /\ \A r \in Requests : requests'[r].profile # Public \/ requests'[r].op \in {"none", "close"}
  \/ /\ part = "tabs" /\ BrowserNext /\ served' <= 2
     /\ \A r \in Requests : requests'[r].op # "act" => requests'[r].pc = "idle"

\* The terminal: one that restores and resumes, two that share their records,
\* the keys of one turn, the rows of a picker.
TheGroups ==
  <<[options |-> <<{"a"}, {"a", "b"}>>, note |-> FALSE], [options |-> <<>>, note |-> TRUE],
    [options |-> <<{"b"}, {}, {"a", "b"}>>, note |-> FALSE]>>
TerminalPart ==
  \/ part = "records" /\ TerminalNext /\ UNCHANGED <<keyVars, picker>> /\ sessions'[w2] = Closed
  \/ part = "pair" /\ TerminalNext /\ UNCHANGED <<keyVars, picker>> /\ ids' <= 2
     /\ \A w \in Terminals : sessions'[w].checkpoints = <<>>
  \/ part = "keys" /\ TerminalNext /\ UNCHANGED <<sessionVars, picker>> /\ (turn'.overlapped => pressed' <= 3)
     /\ asks'["g1"].kind = "gate" /\ (asks["g1"].stage = "none" => asks'["g2"] = asks["g2"])
  \/ part = "picker" /\ TerminalNext /\ UNCHANGED <<keyVars, sessionVars>>

WorkersNext ==
  /\ UNCHANGED part
  /\ \/ part = "budget" /\ Next /\ UNCHANGED <<dialogueVars, wardenVars, browserVars, terminalVars>>
     \/ part = "dialogue" /\ DialogueNext /\ UNCHANGED <<vars, wardenVars, browserVars, terminalVars>>
     \/ WardenNext /\ WardenPart /\ UNCHANGED <<vars, dialogueVars, browserVars, terminalVars>>
     \/ BrowserPart /\ UNCHANGED <<vars, dialogueVars, wardenVars, terminalVars>>
     \/ TerminalPart /\ UNCHANGED <<vars, dialogueVars, wardenVars, browserVars>>

WorkersSpec == WorkersInit /\ [][WorkersNext]_workerVars
=============================================================================
