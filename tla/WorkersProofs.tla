----------------------------- MODULE WorkersProofs -----------------------------
(***************************************************************************)
(* Proofs about what works inside a round.  CoordinationBudget, for any    *)
(* number of runs, calls, limits and policies: types, the run's ceilings,  *)
(* and the provider's slots.  Browser, for any portals, requests, tabs and *)
(* pages: a sign-out stays one, a read keeps its page, tabs stay apart.    *)
(* Terminal, for any sessions, keys and lists: no turn and no key is lost  *)
(* unasked, and what is chosen is what is shown.                           *)
(***************************************************************************)
EXTENDS CoordinationBudget, Fronts, FiniteSetTheorems, TLAPS

-----------------------------------------------------------------------------
(* The allowance of the runs: types. *)

LEMMA BudgetTypeInit == Init => TypeOK
  BY BudgetAssumption DEF Init, TypeOK, Days

\* Every action of a call keeps the types.
LEMMA CallTypes ==
  ASSUME TypeOK, NEW c \in Calls, CallStep(c) \/ Fail(c) \/ ProviderEnds(c)
  PROVE  TypeOK'
<1>1. RunOf[c] \in Runs /\ Tokens[c] \in Nat /\ 0 \in Days
  BY BudgetAssumption DEF Days
<1>2. CASE Begin(c)
  BY <1>2 DEF Begin, TypeOK
<1>3. CASE Admit(c)
  <2>1. spent' \in [Runs -> [calls : Nat, tokens : Nat, money : Nat]]
    <3> DEFINE u == spent[RunOf[c]]
    <3>1. u.calls \in Nat /\ u.tokens \in Nat /\ u.money \in Nat
      BY <1>1 DEF TypeOK
    <3>2. [calls |-> u.calls + 1, tokens |-> u.tokens + Tokens[c], money |-> u.money + Tokens[c]]
             \in [calls : Nat, tokens : Nat, money : Nat]
      BY <1>1, <3>1
    <3> QED BY <1>1, <1>3, <3>2 DEF Admit, ChargedRun, TypeOK
  <2>2. day' \in [Days -> [calls : Nat, tokens : Nat]]
    <3> DEFINE u == day[asof[c]]
    <3>1. u.calls \in Nat /\ u.tokens \in Nat
      BY DEF TypeOK
    <3>2. [calls |-> u.calls + 1, tokens |-> u.tokens + Tokens[c]] \in [calls : Nat, tokens : Nat]
      BY <1>1, <3>1
    <3> QED BY <1>3, <3>2 DEF Admit, ChargedDay, TypeOK
  <2> QED BY <1>1, <1>3, <2>1, <2>2 DEF Admit, TypeOK
<1>4. CASE Replay(c) \/ Wait(c) \/ Wake(c) \/ Refuse(c)
  BY ZenonT(60), <1>1, <1>4 DEF Replay, Wait, Wake, Refuse, TypeOK
<1>5. CASE Send(c) \/ Complete(c) \/ Fail(c) \/ ProviderEnds(c)
  BY <1>5 DEF Send, Complete, Fail, Held, ProviderEnds, TypeOK
<1> QED BY <1>2, <1>3, <1>4, <1>5 DEF CallStep

\* Every step keeps the types.
LEMMA BudgetTypeStep ==
  ASSUME TypeOK, [Next]_vars
  PROVE  TypeOK'
<1>1. ASSUME NEW c \in Calls, CallStep(c) \/ Fail(c) \/ ProviderEnds(c) PROVE TypeOK'
  BY <1>1, CallTypes
<1>2. ASSUME NEW r \in Runs, LeaseLapses(r) \/ Close(r) PROVE TypeOK'
  BY <1>2 DEF LeaseLapses, Close, TypeOK
<1>3. ASSUME NEW r \in Runs, Resume(r) PROVE TypeOK'
  BY <1>3, BudgetAssumption DEF Resume, TypeOK
<1>4. ASSUME NEW p \in Policies, Save(p) PROVE TypeOK'
  BY <1>4 DEF Save, TypeOK
<1>5. CASE Midnight
  BY <1>5, BudgetAssumption DEF Midnight, TypeOK, Days
<1>6. CASE Crash
  BY SMTT(60), <1>6, BudgetAssumption DEF Crash, TypeOK, Days
<1>7. CASE UNCHANGED vars
  BY <1>7 DEF vars, TypeOK
<1> QED BY <1>1, <1>2, <1>3, <1>4, <1>5, <1>6, <1>7 DEF Next

\* Every reachable state of the allowance has the types of TypeOK.
THEOREM BudgetTypeCorrect == Spec => []TypeOK
<1>1. Init => TypeOK
  BY BudgetTypeInit
<1>2. TypeOK /\ [Next]_vars => TypeOK'
  BY BudgetTypeStep
<1> QED BY <1>1, <1>2, PTL DEF Spec

-----------------------------------------------------------------------------
(* The ceilings of a run. *)

\* An admission that passes the checks of reserve() stays within the ceilings.
LEMMA AdmitCeiling ==
  ASSUME TypeOK, RunCeiling, NEW c \in Calls, Admit(c)
  PROVE  RunCeiling'
<1>1. RunOf[c] \in Runs /\ Tokens[c] \in Nat /\ Limits[RunOf[c]].enforce \in BOOLEAN
  BY BudgetAssumption
<1>2. SUFFICES ASSUME NEW r \in Runs
               PROVE  /\ spent'[r].calls <= Limits[r].calls
                      /\ spent'[r].tokens <= Limits[r].tokens
                      /\ Limits[r].enforce => spent'[r].money <= Limits[r].money
  BY DEF RunCeiling
<1>3. CASE r # RunOf[c]
  BY <1>1, <1>3 DEF Admit, ChargedRun, RunCeiling, TypeOK
<1>4. CASE r = RunOf[c]
  <2>1. spent'[r] = [calls |-> spent[r].calls + 1, tokens |-> spent[r].tokens + Tokens[c],
                     money |-> spent[r].money + Tokens[c]]
    BY <1>1, <1>4 DEF Admit, ChargedRun, TypeOK
  <2> QED BY <1>4, <2>1 DEF Admit, WithinRun
<1> QED BY <1>3, <1>4

\* Nothing but an admission changes what a run has spent.
LEMMA SpentByAdmission ==
  ASSUME [Next]_vars
  PROVE  UNCHANGED spent \/ \E c \in Calls : Admit(c)
<1>1. ASSUME NEW c \in Calls, CallStep(c) \/ Fail(c) \/ ProviderEnds(c)
      PROVE  UNCHANGED spent \/ Admit(c)
  BY <1>1 DEF CallStep, Begin, Replay, Wait, Wake, Refuse, Send, Complete, Fail, ProviderEnds
<1> QED BY <1>1 DEF Next, vars, LeaseLapses, Close, Resume, Save, Midnight, Crash

\* No run of any number of overlapping, failing and repeated calls exceeds the
\* ceilings fixed when it was admitted.
THEOREM CeilingsHold == Spec => []RunCeiling
<1>1. Init => RunCeiling
  BY BudgetAssumption DEF Init, RunCeiling
<1>2. TypeOK /\ RunCeiling /\ [Next]_vars => RunCeiling'
  BY SpentByAdmission, AdmitCeiling DEF RunCeiling
<1> QED BY <1>1, <1>2, BudgetTypeCorrect, PTL DEF Spec

-----------------------------------------------------------------------------
(* The provider's slots. *)

\* A request at work at the provider has a receipt that holds a slot, an
\* admitted call has a started one, and the slots held are within the limits.
SlotInv ==
  /\ wire \subseteq Occupying(Calls)
  /\ \A c \in Calls : pc[c] \in {"admitted", "streaming"} => receipt[c] = "started"
  /\ \A r \in Runs : Cardinality(Occupying(CallsOf(r))) <= Limits[r].conc
  /\ \E p \in Policies : Cardinality(Occupying(Calls)) <= p.conc

\* The receipts that hold a slot are finitely many.
LEMMA OccupyingFinite ==
  ASSUME NEW S \in SUBSET Calls
  PROVE  /\ IsFiniteSet(Occupying(S)) /\ Cardinality(Occupying(S)) \in Nat
         /\ IsFiniteSet(Occupying(S)') /\ Cardinality(Occupying(S)') \in Nat
<1>1. Occupying(S) \in SUBSET Calls /\ Occupying(S)' \in SUBSET Calls
  BY DEF Occupying
<1> QED BY <1>1, FS_Subset, FS_CardinalityType, BudgetAssumption

\* When no receipt newly holds a slot, no slot count grows.
LEMMA SlotsShrink ==
  ASSUME SlotInv, \A c \in Calls : receipt'[c] \in {"started", "unknown"}
                                     => receipt[c] \in {"started", "unknown"}
  PROVE  /\ \A r \in Runs : Cardinality(Occupying(CallsOf(r))') <= Limits[r].conc
         /\ \E p \in Policies : Cardinality(Occupying(Calls)') <= p.conc
<1>1. ASSUME NEW S \in SUBSET Calls, NEW n \in Nat, Cardinality(Occupying(S)) <= n
      PROVE  Cardinality(Occupying(S)') <= n
  <2>1. Occupying(S)' \in SUBSET Occupying(S)
    BY DEF Occupying
  <2>2. Cardinality(Occupying(S)') <= Cardinality(Occupying(S))
    BY <2>1, OccupyingFinite, FS_Subset
  <2> QED BY <1>1, <2>2, OccupyingFinite
<1>2. \A r \in Runs : CallsOf(r) \in SUBSET Calls /\ Limits[r].conc \in Nat
  BY BudgetAssumption DEF CallsOf
<1>3. \A p \in Policies : p.conc \in Nat
  BY BudgetAssumption
<1> QED BY <1>1, <1>2, <1>3 DEF SlotInv

\* An admission takes a slot that is free, of the run and of the owner.
LEMMA SlotsGrow ==
  ASSUME TypeOK, SlotInv, NEW c \in Calls, Admit(c)
  PROVE  /\ \A r \in Runs : Cardinality(Occupying(CallsOf(r))') <= Limits[r].conc
         /\ \E p \in Policies : Cardinality(Occupying(Calls)') <= p.conc
<1>1. receipt' = [receipt EXCEPT ![c] = "started"]
  BY DEF Admit
<1>2. ASSUME NEW S \in SUBSET Calls, NEW n \in Nat, c \in S, Cardinality(Occupying(S)) < n
      PROVE  Cardinality(Occupying(S)') <= n
  <2>1. Occupying(S)' = Occupying(S) \cup {c}
    BY <1>1, <1>2 DEF Occupying, TypeOK
  <2>2. Cardinality(Occupying(S) \cup {c}) <= Cardinality(Occupying(S)) + 1
    BY OccupyingFinite, FS_AddElement
  <2> QED BY SMTT(60), <1>2, <2>1, <2>2, OccupyingFinite
<1>3. ASSUME NEW r \in Runs PROVE Cardinality(Occupying(CallsOf(r))') <= Limits[r].conc
  <2>1. CallsOf(r) \in SUBSET Calls /\ Limits[r].conc \in Nat
    BY BudgetAssumption DEF CallsOf
  <2>2. CASE r = RunOf[c]
    <3>1. c \in CallsOf(r) /\ Cardinality(Occupying(CallsOf(r))) < Limits[r].conc
      BY <2>2 DEF Admit, RunSlotFree, CallsOf
    <3> QED BY <1>2, <2>1, <3>1
  <2>3. CASE r # RunOf[c]
    <3>1. Occupying(CallsOf(r))' = Occupying(CallsOf(r))
      BY <1>1, <2>3 DEF Occupying, CallsOf, TypeOK
    <3> QED BY <3>1 DEF SlotInv
  <2> QED BY <2>2, <2>3
<1>4. Cardinality(Occupying(Calls)') <= policy.conc
  <2>1. policy.conc \in Nat /\ Cardinality(Occupying(Calls)) < policy.conc
    BY BudgetAssumption DEF Admit, OwnerSlotFree, TypeOK
  <2> QED BY <1>2, <2>1
<1> QED BY <1>3, <1>4 DEF TypeOK

\* Every step keeps the slots.
LEMMA SlotInvStep ==
  ASSUME TypeOK, SlotInv, [Next]_vars
  PROVE  SlotInv'
<1> DEFINE KeptSlot == \A c \in Calls : receipt'[c] \in {"started", "unknown"}
                                      => receipt[c] \in {"started", "unknown"}
<1> DEFINE Wired == wire' \subseteq Occupying(Calls)'
<1> DEFINE AtWork == \A c \in Calls : pc'[c] \in {"admitted", "streaming"} => receipt'[c] = "started"
<1>1. KeptSlot /\ Wired /\ AtWork => SlotInv'
  BY SlotsShrink DEF SlotInv, Occupying, CallsOf
<1>2. ASSUME NEW c \in Calls, Admit(c) PROVE SlotInv'
  <2>1. Wired
    BY <1>2 DEF Admit, SlotInv, Occupying, TypeOK
  <2>2. AtWork
    BY <1>2 DEF Admit, SlotInv, TypeOK
  <2> QED BY <1>2, <2>1, <2>2, SlotsGrow DEF SlotInv, Occupying, CallsOf
<1>3. ASSUME NEW c \in Calls, Begin(c) \/ Replay(c) \/ Wait(c) \/ Wake(c) \/ Refuse(c)
      PROVE  SlotInv'
  BY ZenonT(60), <1>1, <1>3 DEF Begin, Replay, Wait, Wake, Refuse, SlotInv, Occupying, TypeOK
<1>4. ASSUME NEW c \in Calls, Send(c) PROVE SlotInv'
  BY <1>1, <1>4 DEF Send, SlotInv, Occupying, TypeOK
<1>5. ASSUME NEW c \in Calls, ProviderEnds(c) PROVE SlotInv'
  BY <1>1, <1>5 DEF ProviderEnds, SlotInv, Occupying, TypeOK
<1>6. ASSUME NEW c \in Calls, Complete(c) PROVE SlotInv'
  BY <1>1, <1>6 DEF Complete, SlotInv, Occupying, TypeOK
<1>7. ASSUME NEW c \in Calls, Fail(c) PROVE SlotInv'
  BY <1>1, <1>7 DEF Fail, Held, SlotInv, Occupying, TypeOK
<1>8. ASSUME NEW r \in Runs, LeaseLapses(r) \/ Close(r) \/ Resume(r) PROVE SlotInv'
  BY <1>1, <1>8 DEF LeaseLapses, Close, Resume, SlotInv, Occupying, TypeOK
<1>9. CASE (\E p \in Policies : Save(p)) \/ Midnight \/ Crash \/ UNCHANGED vars
  BY <1>1, <1>9 DEF Save, Midnight, Crash, vars, SlotInv, Occupying, TypeOK
<1> QED BY <1>2, <1>3, <1>4, <1>5, <1>6, <1>7, <1>8, <1>9 DEF Next, CallStep

\* The slots held bound the requests at work.
LEMMA SlotsBoundWire ==
  ASSUME SlotInv
  PROVE  InFlightBounded
<1>1. ASSUME NEW S \in SUBSET Calls, NEW T \in SUBSET Occupying(S), NEW n \in Nat,
             Cardinality(Occupying(S)) <= n
      PROVE  Cardinality(T) <= n
  BY <1>1, OccupyingFinite, FS_Subset, FS_CardinalityType
<1>2. ASSUME NEW r \in Runs PROVE Cardinality(wire \cap CallsOf(r)) <= Limits[r].conc
  <2>1. wire \cap CallsOf(r) \in SUBSET Occupying(CallsOf(r)) /\ CallsOf(r) \in SUBSET Calls
    BY DEF SlotInv, Occupying, CallsOf
  <2>2. Limits[r].conc \in Nat
    BY BudgetAssumption
  <2> QED BY <1>1, <2>1, <2>2 DEF SlotInv
<1>3. \E p \in Policies : Cardinality(wire) <= p.conc
  BY <1>1, BudgetAssumption DEF SlotInv
<1> QED BY <1>2, <1>3 DEF InFlightBounded

\* However answers are lost and processes die, the provider never works on
\* more requests than the run's slots and the widest policy allow.
THEOREM SlotsHold == Spec => []InFlightBounded
<1>1. Init => SlotInv
  <2>1. ASSUME Init, NEW S \in SUBSET Calls PROVE Occupying(S) = {}
    BY <2>1 DEF Init, Occupying
  <2>2. Cardinality({}) = 0
    BY FS_EmptySet
  <2>3. \A r \in Runs : CallsOf(r) \in SUBSET Calls /\ Limits[r].conc \in Nat
    BY BudgetAssumption DEF CallsOf
  <2>4. \A p \in Policies : p.conc \in Nat
    BY BudgetAssumption
  <2>5. ASSUME Init PROVE SlotInv
    <3>1. \A r \in Runs : Cardinality(Occupying(CallsOf(r))) <= Limits[r].conc
      BY <2>1, <2>2, <2>3, <2>5
    <3>2. \E p \in Policies : Cardinality(Occupying(Calls)) <= p.conc
      <4>1. policy \in Policies /\ Occupying(Calls) = {}
        BY <2>1, <2>5 DEF Init
      <4> QED BY <2>2, <2>4, <4>1
    <3> QED BY <2>5, <3>1, <3>2 DEF Init, SlotInv
  <2> QED BY <2>5
<1>2. TypeOK /\ SlotInv /\ [Next]_vars => SlotInv'
  BY SlotInvStep
<1>3. SlotInv => InFlightBounded
  BY SlotsBoundWire
<1> QED BY <1>1, <1>2, <1>3, BudgetTypeCorrect, PTL DEF Spec

-----------------------------------------------------------------------------
(* The browser desk. *)

Portals == Profiles \cup {Public}
TabRecords ==
  [state : {"unused", "open", "popped", "closed"}, profile : Portals, signed : BOOLEAN,
   pages : Seq(Requests), active : Nat]
Stages ==
  {"idle", "throwaway", "waiting", "driving", "showing", "reaping", "opening", "saving", "closing", "forgetting"}
CallRecords ==
  [pc : Stages, op : {"none", "read", "act", "login", "close", "forget"}, profile : Portals,
   named : 0 .. MaxSessions, sid : 0 .. MaxSessions, signed : BOOLEAN,
   todo : SUBSET (0 .. MaxSessions), saveAs : Portals, alone : BOOLEAN]

BrowserTyped ==
  /\ browsers \in [SessionIds -> TabRecords]
  /\ profileSessions \in [Profiles -> 0 .. MaxSessions]
  /\ jars \in [Profiles -> {"absent", "plain", "signed"}]
  /\ locks \in [SessionIds -> Requests \cup {Nobody}]
  /\ requests \in [Requests -> CallRecords]
  /\ idle \subseteq SessionIds /\ signedOut \subseteq Profiles

\* A request in a tab has a tab that was opened, and drives it only under its lock.
InTab == {"waiting", "driving", "showing", "saving", "closing"}
CallsTrue ==
  \A r \in Requests :
    /\ requests[r].pc = "idle" <=> requests[r].op = "none"
    /\ requests[r].pc = "showing" => requests[r].op = "read"
    /\ requests[r].op = "read" => requests[r].pc \in {"throwaway", "waiting", "driving", "showing"}
    /\ requests[r].op \in {"act", "login"} =>
         requests[r].pc \in {"reaping", "opening", "waiting", "driving", "saving", "closing"}
    /\ requests[r].op = "close" => requests[r].pc \in {"saving", "closing"}
    /\ requests[r].op = "forget" => requests[r].pc \in {"forgetting", "closing"}
    /\ requests[r].op \in {"login", "forget"} => requests[r].profile \in Profiles
    /\ requests[r].op = "forget" => requests[r].todo \subseteq SessionIds
    /\ requests[r].op = "read" /\ requests[r].pc # "throwaway" => requests[r].profile \in Profiles
    /\ requests[r].op = "login" => requests[r].named = 0
    /\ requests[r].pc \in InTab => requests[r].sid \in SessionIds /\ browsers[requests[r].sid].state # "unused"
    /\ requests[r].pc \in {"driving", "showing"} => locks[requests[r].sid] = r

\* The tab of a portal is the portal's, and a tab that was taken out has a request
\* that goes on to close it.
TabsTrue ==
  /\ \A s \in SessionIds : Alive(s) => browsers[s].active \in DOMAIN browsers[s].pages
  /\ \A p \in Profiles : profileSessions[p] \in Open => browsers[profileSessions[p]].profile = p
  /\ \A p \in Profiles : profileSessions[p] # 0 => browsers[profileSessions[p]].state # "unused"
  /\ \A s \in SessionIds : browsers[s].state = "popped" =>
       \E r \in Requests : requests[r].pc \in {"saving", "closing"} /\ requests[r].sid = s

\* What a request in a tab takes the tab for: it may write its cookies as the portal's.
Claims(r, s, p) ==
  /\ requests[r].sid = s /\ p \in Profiles
  /\ \/ requests[r].pc \in {"waiting", "driving", "showing"} /\ requests[r].op \in {"read", "login"}
        /\ requests[r].profile = p
     \/ requests[r].pc = "saving" /\ requests[r].saveAs = p
ClaimsAgree ==
  /\ \A r \in Requests, s \in SessionIds, p \in Profiles : Claims(r, s, p) => browsers[s].profile \in {p, Public}
  /\ \A r, o \in Requests, s \in SessionIds, p, q \in Profiles : Claims(r, s, p) /\ Claims(o, s, q) => p = q

\* A sign-out that runs alone has every tab of its portal before it.
ForgetAlone ==
  \A r \in Requests : requests[r].op = "forget" /\ requests[r].alone =>
    /\ \A o \in Requests \ {r} : requests[o].pc = "idle"
    /\ \A s \in SessionIds : Alive(s) /\ browsers[s].profile = requests[r].profile => s \in requests[r].todo

\* After it nothing under way carries the sign-in.
StaysOut ==
  /\ SignOutFinal
  /\ \A r \in Requests : requests[r].pc \in {"throwaway", "opening"} /\ requests[r].profile \in signedOut => ~requests[r].signed
  /\ \A r \in Requests, s \in SessionIds, p \in signedOut : Claims(r, s, p) /\ Alive(s) => ~browsers[s].signed

BrowserInv == BrowserTyped /\ CallsTrue /\ TabsTrue /\ ClaimsAgree /\ ForgetAlone /\ StaysOut /\ ReadsItsOwn

LEMMA LeastSession ==
  ASSUME NEW T \in SUBSET SessionIds, T # {} PROVE Min(T) \in T
<1>1. T \subseteq Nat /\ T # {}
  BY BrowserAssumption DEF SessionIds
<1>2. PICK x \in T : \A y \in T : ~(<<y, x>> \in OpToRel(<, Nat))
  BY ZenonT(60), <1>1, NatLessThanWellFounded, WFMin
<1>3. \A y \in T : y \in Nat /\ x \in Nat /\ ~(y < x)
  BY <1>1, <1>2 DEF OpToRel
<1>4. \A y \in T : x =< y
  BY <1>3
<1>5. \E z \in T : \A y \in T : z =< y
  BY ZenonT(60), <1>2, <1>4
<1> QED BY Zenon, <1>5 DEF Min

\* What a request that goes on has become.
LEMMA GoingOn ==
  ASSUME BrowserTyped, NEW r \in Requests, NEW stage \in Stages, NEW sid \in 0 .. MaxSessions,
         NEW todo \in SUBSET (0 .. MaxSessions), NEW signed \in BOOLEAN, NEW saveAs \in Portals,
         GoesOn(r, stage, sid, todo, signed, saveAs)
  PROVE  /\ requests' \in [Requests -> CallRecords]
         /\ requests'[r].pc = stage /\ requests'[r].op = requests[r].op /\ requests'[r].profile = requests[r].profile
         /\ requests'[r].named = requests[r].named /\ requests'[r].sid = sid /\ requests'[r].signed = signed
         /\ requests'[r].todo = todo /\ requests'[r].saveAs = saveAs /\ requests'[r].alone = requests[r].alone
         /\ \A o \in Requests \ {r} : requests'[o] = requests[o]
BY DEF GoesOn, BrowserTyped, CallRecords

LEMMA Going ==
  ASSUME BrowserTyped, NEW r \in Requests, NEW stage \in Stages, Goes(r, stage)
  PROVE  /\ requests' \in [Requests -> CallRecords]
         /\ requests'[r].pc = stage /\ requests'[r].op = requests[r].op /\ requests'[r].profile = requests[r].profile
         /\ requests'[r].named = requests[r].named /\ requests'[r].sid = requests[r].sid
         /\ requests'[r].signed = requests[r].signed /\ requests'[r].todo = requests[r].todo
         /\ requests'[r].saveAs = requests[r].saveAs /\ requests'[r].alone = requests[r].alone
         /\ \A o \in Requests \ {r} : requests'[o] = requests[o]
BY SMTT(60) DEF Goes, BrowserTyped, CallRecords

LEMMA Responding ==
  ASSUME BrowserTyped, NEW r \in Requests, Responds(r)
  PROVE  /\ requests' \in [Requests -> CallRecords]
         /\ requests'[r] = AtRest
         /\ \A o \in Requests \ {r} : requests'[o] = requests[o]
BY BrowserAssumption DEF Responds, BrowserTyped, CallRecords, AtRest, Stages, Portals

\* What a request that arrives has become, and what the others know of it.
Arrived(r, op, stage, profile, named, sid, signed, todo, saveAs) ==
  /\ requests[r].pc = "idle" /\ requests' \in [Requests -> CallRecords]
  /\ requests'[r].pc = stage /\ requests'[r].op = op /\ requests'[r].profile = profile
  /\ requests'[r].named = named /\ requests'[r].sid = sid /\ requests'[r].signed = signed
  /\ requests'[r].todo = todo /\ requests'[r].saveAs = saveAs
  /\ requests'[r].alone = (\A o \in Requests \ {r} : requests[o].pc = "idle")
  /\ \A o \in Requests \ {r} :
       /\ requests'[o].pc = requests[o].pc /\ requests'[o].op = requests[o].op
       /\ requests'[o].profile = requests[o].profile /\ requests'[o].named = requests[o].named
       /\ requests'[o].sid = requests[o].sid /\ requests'[o].signed = requests[o].signed
       /\ requests'[o].todo = requests[o].todo /\ requests'[o].saveAs = requests[o].saveAs
       /\ requests'[o].alone = FALSE

LEMMA Arriving ==
  ASSUME BrowserTyped, NEW r \in Requests, NEW stage \in Stages, NEW op \in {"read", "act", "login", "close", "forget"},
         NEW profile \in Portals, NEW named \in 0 .. MaxSessions, NEW sid \in 0 .. MaxSessions,
         NEW signed \in BOOLEAN, NEW todo \in SUBSET (0 .. MaxSessions), NEW saveAs \in Portals,
         Arrives(r, op, stage, profile, named, sid, signed, todo, saveAs)
  PROVE  Arrived(r, op, stage, profile, named, sid, signed, todo, saveAs)
<1> DEFINE apart == \A o \in Requests \ {r} : requests[o].pc = "idle"
           new == [pc |-> stage, op |-> op, profile |-> profile, named |-> named, sid |-> sid, signed |-> signed,
                   todo |-> todo, saveAs |-> saveAs, alone |-> apart]
<1>1. new \in CallRecords
  BY Zenon DEF CallRecords
<1>2. requests' = [o \in Requests |-> IF o = r THEN new ELSE [requests[o] EXCEPT !.alone = FALSE]]
  BY DEF Arrives
<1>3. new.pc = stage /\ new.op = op /\ new.profile = profile /\ new.named = named /\ new.sid = sid
      /\ new.signed = signed /\ new.todo = todo /\ new.saveAs = saveAs /\ new.alone = apart
  BY Zenon
<1> HIDE DEF new, apart
<1>4. \A o \in Requests : [requests[o] EXCEPT !.alone = FALSE] \in CallRecords
  BY ZenonT(60) DEF BrowserTyped, CallRecords
<1>5. requests' \in [Requests -> CallRecords] /\ requests'[r] = new
  BY <1>1, <1>2, <1>4
<1>6. \A o \in Requests \ {r} : requests'[o] = [requests[o] EXCEPT !.alone = FALSE]
  BY <1>2
<1>7. requests[r].pc = "idle"
  BY DEF Arrives
<1>8. requests'[r].alone = (\A o \in Requests \ {r} : requests[o].pc = "idle")
  BY <1>3, <1>5 DEF apart
<1>9. \A o \in Requests \ {r} :
        /\ requests'[o].pc = requests[o].pc /\ requests'[o].op = requests[o].op
        /\ requests'[o].profile = requests[o].profile /\ requests'[o].named = requests[o].named
        /\ requests'[o].sid = requests[o].sid /\ requests'[o].signed = requests[o].signed
        /\ requests'[o].todo = requests[o].todo /\ requests'[o].saveAs = requests[o].saveAs
        /\ requests'[o].alone = FALSE
  <2> TAKE o \in Requests \ {r}
  <2>1. requests[o] \in CallRecords
    BY DEF BrowserTyped
  <2>2. requests'[o] = [requests[o] EXCEPT !.alone = FALSE]
    BY <1>6
  <2> QED BY <2>1, <2>2 DEF CallRecords
<1>10. /\ requests'[r].pc = stage /\ requests'[r].op = op /\ requests'[r].profile = profile
       /\ requests'[r].named = named /\ requests'[r].sid = sid /\ requests'[r].signed = signed
       /\ requests'[r].todo = todo /\ requests'[r].saveAs = saveAs
  BY <1>3, <1>5
<1> QED BY Zenon, <1>5, <1>7, <1>8, <1>9, <1>10 DEF Arrived

LEMMA Moving ==
  ASSUME BrowserTyped, NEW s \in SessionIds, NEW state \in {"unused", "open", "popped", "closed"},
         NEW profile \in Portals, browsers' = Moved(s, state, profile)
  PROVE  /\ browsers' \in [SessionIds -> TabRecords]
         /\ browsers'[s].state = state /\ browsers'[s].profile = profile /\ browsers'[s].signed = browsers[s].signed
         /\ browsers'[s].pages = browsers[s].pages /\ browsers'[s].active = browsers[s].active
         /\ \A t \in SessionIds \ {s} : browsers'[t] = browsers[t]
BY DEF Moved, BrowserTyped, TabRecords

LEMMA Turning ==
  ASSUME BrowserTyped, NEW s \in SessionIds, NEW pages \in Seq(Requests), NEW active \in Nat,
         browsers' = Turned(s, pages, active)
  PROVE  /\ browsers' \in [SessionIds -> TabRecords]
         /\ browsers'[s].state = browsers[s].state /\ browsers'[s].profile = browsers[s].profile
         /\ browsers'[s].signed = browsers[s].signed
         /\ browsers'[s].pages = pages /\ browsers'[s].active = active
         /\ \A t \in SessionIds \ {s} : browsers'[t] = browsers[t]
BY DEF Turned, BrowserTyped, TabRecords

\* A request that arrives, other than a close: the tabs are as they were, and a read
\* waits for the open tab of its portal or goes apart with the cookies on disk.
LEMMA ArrivalKeeps ==
  ASSUME BrowserInv, NEW r \in Requests, NEW stage \in Stages, NEW op \in {"read", "act", "login", "forget"},
         NEW profile \in Portals, NEW named \in 0 .. MaxSessions, NEW sid \in 0 .. MaxSessions,
         NEW signed \in BOOLEAN, NEW todo \in SUBSET (0 .. MaxSessions), NEW saveAs \in Portals,
         Arrives(r, op, stage, profile, named, sid, signed, todo, saveAs),
         UNCHANGED <<browsers, jars, locks, signedOut>>, idle' \subseteq SessionIds,
         profileSessions' \in [Profiles -> 0 .. MaxSessions],
         \A p \in Profiles : profileSessions'[p] \in {0, profileSessions[p]},
         op = "read" =>
           \/ stage = "throwaway" /\ (signed => profile \in Profiles /\ jars[profile] = "signed")
           \/ stage = "waiting" /\ sid \in Open /\ profile \in Profiles /\ browsers[sid].profile = profile,
         op \in {"act", "login"} => stage = "reaping",
         op = "login" => profile \in Profiles /\ named = 0,
         op = "forget" => stage = "forgetting" /\ profile \in Profiles /\ todo = Open
  PROVE  BrowserInv'
<1> USE DEF BrowserInv
<1>1. BrowserTyped /\ op \in {"read", "act", "login", "close", "forget"}
  BY Zenon
<1>2. Arrived(r, op, stage, profile, named, sid, signed, todo, saveAs)
  BY <1>1, Arriving
<1>3. BrowserTyped'
  BY <1>2 DEF BrowserTyped, Arrived
<1>4. CallsTrue'
  BY <1>2 DEF Arrived, CallsTrue, Open, InTab
<1>5. TabsTrue'
  BY <1>2 DEF Arrived, TabsTrue, Open, Alive, SessionIds
<1>6. \A o \in Requests, s \in SessionIds, p \in Profiles : Claims(o, s, p)' =>
        Claims(o, s, p) \/ (browsers[s].state = "open" /\ browsers[s].profile = p)
  BY <1>2 DEF Arrived, Claims, Open
<1>7. ClaimsAgree'
  BY <1>6, BrowserAssumption DEF ClaimsAgree
<1>8. ForgetAlone'
  <2>1. op = "forget" /\ requests'[r].alone => \A s \in SessionIds : Alive(s) => s \in todo
    BY <1>2 DEF Arrived, TabsTrue, Alive, Open
  <2>2. \A o \in Requests : requests'[o].op = "forget" /\ requests'[o].alone => o = r /\ op = "forget"
    BY <1>2 DEF Arrived
  <2>3. requests'[r].alone => \A o \in Requests \ {r} : requests'[o].pc = "idle"
    BY ZenonT(120), <1>2 DEF Arrived
  <2>4. requests'[r].todo = todo
    BY <1>2 DEF Arrived
  <2> QED BY <2>1, <2>2, <2>3, <2>4 DEF ForgetAlone, Alive
<1>9. StaysOut'
  <2>1. SignOutFinal'
    BY DEF StaysOut, SignOutFinal, Alive
  <2>2. \A o \in Requests : requests'[o].pc \in {"throwaway", "opening"} /\ requests'[o].profile \in signedOut => ~requests'[o].signed
    BY <1>2 DEF Arrived, StaysOut, SignOutFinal
  <2>3. \A o \in Requests, s \in SessionIds, p \in signedOut : Claims(o, s, p)' /\ Alive(s) => ~browsers[s].signed
    BY <1>6 DEF StaysOut, SignOutFinal, BrowserTyped
  <2> QED BY <2>1, <2>2, <2>3 DEF StaysOut, Alive
<1>10. ReadsItsOwn'
  BY <1>2 DEF Arrived, ReadsItsOwn, Alive, Tab
<1> QED BY <1>3, <1>4, <1>5, <1>7, <1>8, <1>9, <1>10

\* live_for_profile() answers with the portal's open tab, and drops only a mapping
\* of the portal that is stale.
LEMMA LiveTab ==
  ASSUME BrowserTyped, TabsTrue, NEW p \in Portals
  PROVE  /\ Live(p) \in 0 .. MaxSessions
         /\ Live(p) # 0 => p \in Profiles /\ Live(p) \in Open /\ browsers[Live(p)].profile = p
         /\ Pruned(p) \in [Profiles -> 0 .. MaxSessions]
         /\ \A q \in Profiles : Pruned(p)[q] \in {0, profileSessions[q]}
<1>1. Live(p) # 0 => p \in Profiles /\ Live(p) = profileSessions[p] /\ profileSessions[p] \in Open
  BY DEF Live
<1>2. Live(p) \in 0 .. MaxSessions
  BY <1>1, BrowserAssumption DEF BrowserTyped
<1>3. Live(p) # 0 => browsers[Live(p)].profile = p
  BY <1>1 DEF TabsTrue
<1>4. /\ Pruned(p) \in [Profiles -> 0 .. MaxSessions]
      /\ \A q \in Profiles : Pruned(p)[q] \in {0, profileSessions[q]}
  BY BrowserAssumption DEF Pruned, BrowserTyped
<1> QED BY <1>1, <1>2, <1>3, <1>4

LEMMA ReadKeeps ==
  ASSUME BrowserInv, NEW r \in Requests, NEW p \in Portals, Read(r, p)
  PROVE  BrowserInv'
<1> DEFINE stage == IF Live(p) # 0 THEN "waiting" ELSE "throwaway"
<1>1. /\ Arrives(r, "read", stage, p, 0, Live(p), Cookies(p), {}, Public)
      /\ profileSessions' = Pruned(p) /\ idle' = idle \ {Live(p)} /\ UNCHANGED <<browsers, jars, locks, signedOut>>
  BY Zenon DEF Read
<1>2. /\ Live(p) \in 0 .. MaxSessions
      /\ Live(p) # 0 => p \in Profiles /\ Live(p) \in Open /\ browsers[Live(p)].profile = p
      /\ Pruned(p) \in [Profiles -> 0 .. MaxSessions]
      /\ \A q \in Profiles : Pruned(p)[q] \in {0, profileSessions[q]}
  BY Zenon, LiveTab DEF BrowserInv
<1>3. /\ stage \in Stages /\ Cookies(p) \in BOOLEAN /\ {} \in SUBSET (0 .. MaxSessions) /\ Public \in Portals
      /\ 0 \in 0 .. MaxSessions
  BY BrowserAssumption DEF Stages, Cookies, Portals
<1>4. \/ stage = "throwaway" /\ (Cookies(p) => p \in Profiles /\ jars[p] = "signed")
      \/ stage = "waiting" /\ Live(p) \in Open /\ p \in Profiles /\ browsers[Live(p)].profile = p
  BY <1>2 DEF Cookies
<1>5. idle' \subseteq SessionIds
  BY <1>1 DEF BrowserInv, BrowserTyped
<1> HIDE DEF stage
<1> QED BY <1>1, <1>2, <1>3, <1>4, <1>5, ArrivalKeeps

LEMMA ActKeeps ==
  ASSUME BrowserInv, NEW r \in Requests, NEW p \in Portals, NEW s \in Open \cup {0}, Act(r, p, s)
  PROVE  BrowserInv'
<1>1. /\ Arrives(r, "act", "reaping", p, s, 0, FALSE, Open, Public)
      /\ UNCHANGED <<browsers, profileSessions, jars, locks, idle, signedOut>>
  BY Zenon DEF Act
<1>2. /\ "reaping" \in Stages /\ Open \in SUBSET (0 .. MaxSessions) /\ Public \in Portals
      /\ s \in 0 .. MaxSessions /\ 0 \in 0 .. MaxSessions
  BY BrowserAssumption DEF Stages, Portals, Open, SessionIds
<1>3. profileSessions \in [Profiles -> 0 .. MaxSessions] /\ idle \subseteq SessionIds
  BY DEF BrowserInv, BrowserTyped
<1> QED BY <1>1, <1>2, <1>3, ArrivalKeeps

LEMMA LoginKeeps ==
  ASSUME BrowserInv, NEW r \in Requests, NEW p \in Profiles, Login(r, p)
  PROVE  BrowserInv'
<1>1. /\ Arrives(r, "login", "reaping", p, 0, 0, FALSE, Open, Public)
      /\ UNCHANGED <<browsers, profileSessions, jars, locks, idle, signedOut>>
  BY Zenon DEF Login
<1>2. /\ "reaping" \in Stages /\ Open \in SUBSET (0 .. MaxSessions) /\ Public \in Portals /\ p \in Portals
      /\ 0 \in 0 .. MaxSessions
  BY BrowserAssumption DEF Stages, Portals, Open, SessionIds
<1>3. profileSessions \in [Profiles -> 0 .. MaxSessions] /\ idle \subseteq SessionIds
  BY DEF BrowserInv, BrowserTyped
<1> QED BY <1>1, <1>2, <1>3, ArrivalKeeps

LEMMA ForgetKeeps ==
  ASSUME BrowserInv, NEW r \in Requests, NEW p \in Profiles, Forget(r, p)
  PROVE  BrowserInv'
<1>1. /\ Arrives(r, "forget", "forgetting", p, 0, 0, FALSE, Open, Public)
      /\ UNCHANGED <<browsers, profileSessions, jars, locks, idle, signedOut>>
  BY Zenon DEF Forget
<1>2. /\ "forgetting" \in Stages /\ Open \in SUBSET (0 .. MaxSessions) /\ Public \in Portals /\ p \in Portals
      /\ 0 \in 0 .. MaxSessions
  BY BrowserAssumption DEF Stages, Portals, Open, SessionIds
<1>3. profileSessions \in [Profiles -> 0 .. MaxSessions] /\ idle \subseteq SessionIds
  BY DEF BrowserInv, BrowserTyped
<1> QED BY <1>1, <1>2, <1>3, ArrivalKeeps

\* A request that goes on, or has its answer, while the tabs are as they were: it
\* may have taken or given back the lock of its tab, and written a cookie file.
LEMMA StageKeeps ==
  ASSUME BrowserInv, NEW r \in Requests, UNCHANGED <<browsers, profileSessions, signedOut, idle>>,
         jars' \in [Profiles -> {"absent", "plain", "signed"}], \A p \in signedOut : jars'[p] # "signed",
         locks' \in [SessionIds -> Requests \cup {Nobody}],
         \A o \in Requests \ {r} : requests[o].pc \in {"driving", "showing"} => locks'[requests[o].sid] = o,
         \/ Responds(r) /\ requests[r].pc \notin {"saving", "closing"}
         \/ Goes(r, "closing") /\ requests[r].pc = "saving"
         \/ Goes(r, "driving") /\ requests[r].pc = "waiting" /\ requests[r].op # "close" /\ locks'[requests[r].sid] = r
  PROVE  BrowserInv'
<1>1. BrowserTyped /\ CallsTrue /\ TabsTrue /\ ClaimsAgree /\ ForgetAlone /\ StaysOut /\ ReadsItsOwn
  BY DEF BrowserInv
<1>2. "closing" \in Stages /\ "driving" \in Stages
  BY DEF Stages
<1>3. /\ requests' \in [Requests -> CallRecords]
      /\ \A o \in Requests \ {r} : requests'[o] = requests[o]
      /\ \/ requests'[r] = AtRest /\ requests[r].pc \notin {"saving", "closing"}
         \/ /\ requests'[r].op = requests[r].op /\ requests'[r].profile = requests[r].profile
            /\ requests'[r].named = requests[r].named /\ requests'[r].sid = requests[r].sid
            /\ requests'[r].todo = requests[r].todo /\ requests'[r].alone = requests[r].alone
            /\ \/ requests'[r].pc = "closing" /\ requests[r].pc = "saving"
               \/ /\ requests'[r].pc = "driving" /\ requests[r].pc = "waiting"
                  /\ requests[r].op # "close" /\ locks'[requests[r].sid] = r
  <2>1. CASE Responds(r) /\ requests[r].pc \notin {"saving", "closing"}
    BY Zenon, <1>1, <2>1, Responding
  <2>2. CASE Goes(r, "closing") /\ requests[r].pc = "saving"
    BY Zenon, <1>1, <1>2, <2>2, Going
  <2>3. CASE Goes(r, "driving") /\ requests[r].pc = "waiting" /\ requests[r].op # "close" /\ locks'[requests[r].sid] = r
    BY Zenon, <1>1, <1>2, <2>3, Going
  <2> QED BY <2>1, <2>2, <2>3
<1>4. BrowserTyped'
  BY <1>1, <1>3 DEF BrowserTyped
<1>5. CallsTrue'
  BY <1>1, <1>3 DEF CallsTrue, AtRest, InTab
<1>6. TabsTrue'
  BY <1>1, <1>3 DEF TabsTrue, Open, Alive, AtRest
<1>7. \A o \in Requests, s \in SessionIds, p \in Profiles : Claims(o, s, p)' => Claims(o, s, p)
  BY <1>3 DEF Claims, AtRest
<1>8. ClaimsAgree'
  BY <1>1, <1>7 DEF ClaimsAgree
<1>9. ForgetAlone'
  BY <1>1, <1>3 DEF ForgetAlone, Alive, AtRest
<1>10. StaysOut'
  <2>1. SignOutFinal'
    BY <1>1 DEF StaysOut, SignOutFinal, Alive
  <2>2. \A o \in Requests : requests'[o].pc \in {"throwaway", "opening"} /\ requests'[o].profile \in signedOut => ~requests'[o].signed
    BY <1>1, <1>3 DEF StaysOut, AtRest
  <2>3. \A o \in Requests, s \in SessionIds, p \in signedOut : Claims(o, s, p)' /\ Alive(s) => ~browsers[s].signed
    BY <1>1, <1>7 DEF StaysOut, BrowserTyped
  <2> QED BY <2>1, <2>2, <2>3 DEF StaysOut, Alive
<1>11. ReadsItsOwn'
  BY <1>1, <1>3 DEF ReadsItsOwn, Alive, Tab, AtRest
<1> QED BY <1>4, <1>5, <1>6, <1>8, <1>9, <1>10, <1>11 DEF BrowserInv

LEMMA ReadsApartKeeps ==
  ASSUME BrowserInv, NEW r \in Requests, ReadsApart(r)
  PROVE  BrowserInv'
<1>1. /\ requests[r].pc = "throwaway" /\ Responds(r)
      /\ UNCHANGED <<browsers, profileSessions, locks, idle, signedOut>>
      /\ \/ UNCHANGED jars
         \/ requests[r].profile \in Profiles
            /\ jars' = [jars EXCEPT ![requests[r].profile] = IF requests[r].signed THEN "signed" ELSE "plain"]
  BY Zenon DEF ReadsApart
<1>2. jars' \in [Profiles -> {"absent", "plain", "signed"}] /\ \A p \in signedOut : jars'[p] # "signed"
  BY <1>1 DEF BrowserInv, BrowserTyped, StaysOut, SignOutFinal
<1>3. locks' \in [SessionIds -> Requests \cup {Nobody}]
      /\ \A o \in Requests \ {r} : requests[o].pc \in {"driving", "showing"} => locks'[requests[o].sid] = o
  BY <1>1 DEF BrowserInv, BrowserTyped, CallsTrue
<1>4. requests[r].pc \notin {"saving", "closing"}
  BY <1>1
<1> QED BY <1>1, <1>2, <1>3, <1>4, StageKeeps

\* Writing the cookies of a tab, in the name of the portal that the request takes it
\* for, never brings back an account that was signed out.
LEMMA SavingTrue ==
  ASSUME BrowserInv, NEW p \in Portals, NEW s \in SessionIds,
         browsers[s].profile = p \/ p = Public \/ \E r \in Requests : Claims(r, s, p)
  PROVE  /\ Saved(p, s) \in [Profiles -> {"absent", "plain", "signed"}]
         /\ \A q \in signedOut : Saved(p, s)[q] # "signed"
<1>1. jars \in [Profiles -> {"absent", "plain", "signed"}] /\ signedOut \subseteq Profiles
      /\ \A q \in signedOut : jars[q] # "signed"
  BY DEF BrowserInv, BrowserTyped, StaysOut, SignOutFinal
<1>2. p \in signedOut /\ Alive(s) => ~browsers[s].signed
  BY <1>1, BrowserAssumption DEF BrowserInv, StaysOut, SignOutFinal
<1> QED BY <1>1, <1>2 DEF Saved

LEMMA SavesOutKeeps ==
  ASSUME BrowserInv, NEW r \in Requests, SavesOut(r)
  PROVE  BrowserInv'
<1>1. /\ requests[r].pc = "saving" /\ jars' = Saved(requests[r].saveAs, requests[r].sid) /\ Goes(r, "closing")
      /\ UNCHANGED <<browsers, profileSessions, locks, idle, signedOut>>
  BY Zenon DEF SavesOut
<1>2. /\ requests[r].saveAs \in Portals /\ requests[r].sid \in SessionIds
      /\ Claims(r, requests[r].sid, requests[r].saveAs) \/ requests[r].saveAs = Public
  BY <1>1 DEF BrowserInv, BrowserTyped, CallRecords, CallsTrue, InTab, Claims, Portals
<1>3. jars' \in [Profiles -> {"absent", "plain", "signed"}] /\ \A p \in signedOut : jars'[p] # "signed"
  BY Zenon, <1>1, <1>2, SavingTrue
<1>4. locks' \in [SessionIds -> Requests \cup {Nobody}]
      /\ \A o \in Requests \ {r} : requests[o].pc \in {"driving", "showing"} => locks'[requests[o].sid] = o
  BY <1>1 DEF BrowserInv, BrowserTyped, CallsTrue
<1> QED BY <1>1, <1>3, <1>4, StageKeeps

LEMMA TakesKeeps ==
  ASSUME BrowserInv, NEW r \in Requests, Takes(r)
  PROVE  BrowserInv'
<1>1. /\ requests[r].pc = "waiting" /\ locks[requests[r].sid] = Nobody
      /\ locks' = [locks EXCEPT ![requests[r].sid] = r] /\ Goes(r, "driving")
      /\ UNCHANGED <<browsers, profileSessions, jars, idle, signedOut>>
  BY Zenon DEF Takes, Free
<1>2. /\ requests[r].sid \in SessionIds /\ requests[r].op # "close"
      /\ locks \in [SessionIds -> Requests \cup {Nobody}]
      /\ \A o \in Requests : requests[o].pc \in {"driving", "showing"} => requests[o].sid \in SessionIds /\ locks[requests[o].sid] = o
  BY <1>1 DEF BrowserInv, BrowserTyped, CallsTrue, InTab
<1>3. locks' \in [SessionIds -> Requests \cup {Nobody}] /\ locks'[requests[r].sid] = r
      /\ \A o \in Requests \ {r} : requests[o].pc \in {"driving", "showing"} => locks'[requests[o].sid] = o
  BY <1>1, <1>2, BrowserAssumption
<1>4. jars' \in [Profiles -> {"absent", "plain", "signed"}] /\ \A p \in signedOut : jars'[p] # "signed"
  BY <1>1 DEF BrowserInv, BrowserTyped, StaysOut, SignOutFinal
<1> QED BY <1>1, <1>2, <1>3, <1>4, StageKeeps

\* The lock goes back, and the others that drive a tab keep theirs.
LEMMA Releasing ==
  ASSUME BrowserInv, NEW r \in Requests, requests[r].pc \in {"driving", "showing"}, Releases(r)
  PROVE  /\ requests[r].sid \in SessionIds
         /\ locks' \in [SessionIds -> Requests \cup {Nobody}]
         /\ \A o \in Requests \ {r} : requests[o].pc \in {"driving", "showing"} => locks'[requests[o].sid] = o
<1>1. /\ locks \in [SessionIds -> Requests \cup {Nobody}]
      /\ \A o \in Requests : requests[o].pc \in {"driving", "showing"} => requests[o].sid \in SessionIds /\ locks[requests[o].sid] = o
  BY DEF BrowserInv, BrowserTyped, CallsTrue, InTab
<1> QED BY <1>1 DEF Releases

LEMMA ShowsKeeps ==
  ASSUME BrowserInv, NEW r \in Requests, Shows(r)
  PROVE  BrowserInv'
<1>1. /\ requests[r].pc = "showing" /\ jars' = Saved(requests[r].profile, requests[r].sid)
      /\ Releases(r) /\ Responds(r) /\ UNCHANGED <<browsers, profileSessions, idle, signedOut>>
  BY Zenon DEF Shows
<1>2. /\ requests[r].profile \in Portals /\ requests[r].sid \in SessionIds
      /\ Claims(r, requests[r].sid, requests[r].profile)
  BY <1>1 DEF BrowserInv, BrowserTyped, CallRecords, CallsTrue, InTab, Claims, Portals
<1>3. jars' \in [Profiles -> {"absent", "plain", "signed"}] /\ \A p \in signedOut : jars'[p] # "signed"
  BY Zenon, <1>1, <1>2, SavingTrue
<1>4. /\ locks' \in [SessionIds -> Requests \cup {Nobody}]
      /\ \A o \in Requests \ {r} : requests[o].pc \in {"driving", "showing"} => locks'[requests[o].sid] = o
  BY <1>1, Releasing
<1>5. requests[r].pc \notin {"saving", "closing"}
  BY <1>1
<1> QED BY <1>1, <1>3, <1>4, <1>5, StageKeeps

LEMMA BreaksKeeps ==
  ASSUME BrowserInv, NEW r \in Requests, Breaks(r)
  PROVE  BrowserInv'
<1>1. /\ requests[r].pc = "driving" /\ Releases(r) /\ Responds(r)
      /\ UNCHANGED <<browsers, profileSessions, jars, idle, signedOut>>
  BY Zenon DEF Breaks
<1>2. jars' \in [Profiles -> {"absent", "plain", "signed"}] /\ \A p \in signedOut : jars'[p] # "signed"
  BY <1>1 DEF BrowserInv, BrowserTyped, StaysOut, SignOutFinal
<1>3. /\ locks' \in [SessionIds -> Requests \cup {Nobody}]
      /\ \A o \in Requests \ {r} : requests[o].pc \in {"driving", "showing"} => locks'[requests[o].sid] = o
  BY <1>1, Releasing
<1>4. requests[r].pc \notin {"saving", "closing"}
  BY <1>1
<1> QED BY <1>1, <1>2, <1>3, <1>4, StageKeeps

LEMMA ForgetsJarKeeps ==
  ASSUME BrowserInv, NEW r \in Requests, ForgetsJar(r)
  PROVE  BrowserInv'
<1>1. BrowserTyped /\ CallsTrue /\ TabsTrue /\ ClaimsAgree /\ ForgetAlone /\ StaysOut /\ ReadsItsOwn
  BY DEF BrowserInv
<1>2. /\ requests[r].pc = "forgetting" /\ TabsOf(r) = {} /\ Responds(r)
      /\ jars' = [jars EXCEPT ![requests[r].profile] = "absent"]
      /\ signedOut' = IF requests[r].alone THEN signedOut \cup {requests[r].profile} ELSE signedOut
      /\ UNCHANGED <<browsers, profileSessions, locks, idle>>
  BY Zenon DEF ForgetsJar
<1>3. requests' \in [Requests -> CallRecords] /\ requests'[r] = AtRest /\ \A o \in Requests \ {r} : requests'[o] = requests[o]
  BY Zenon, <1>1, <1>2, Responding
<1>4. requests[r].op = "forget" /\ requests[r].profile \in Profiles
  BY <1>1, <1>2 DEF CallsTrue, BrowserTyped, CallRecords, InTab
<1>5. BrowserTyped'
  BY <1>1, <1>2, <1>3, <1>4 DEF BrowserTyped
<1>6. CallsTrue'
  BY <1>1, <1>2, <1>3 DEF CallsTrue, AtRest, InTab
<1>7. TabsTrue'
  BY <1>1, <1>2, <1>3 DEF TabsTrue, Open, Alive
<1>8. \A o \in Requests, s \in SessionIds, p \in Profiles : Claims(o, s, p)' => o # r /\ Claims(o, s, p)
  BY <1>3 DEF Claims, AtRest
<1>9. ClaimsAgree'
  BY <1>1, <1>2, <1>8 DEF ClaimsAgree
<1>10. ForgetAlone'
  BY <1>1, <1>2, <1>3 DEF ForgetAlone, Alive, AtRest
<1>11. requests[r].alone =>
         /\ \A o \in Requests \ {r} : requests[o].pc = "idle"
         /\ \A s \in SessionIds : Alive(s) => browsers[s].profile # requests[r].profile
  BY <1>1, <1>2, <1>4 DEF ForgetAlone, TabsOf
<1>12. StaysOut'
  <2>1. \A p \in signedOut' : p \in signedOut \/ (requests[r].alone /\ p = requests[r].profile)
    BY <1>2
  <2>2. SignOutFinal'
    BY <1>1, <1>2, <1>4, <1>11, <2>1 DEF StaysOut, SignOutFinal, Alive, BrowserTyped
  <2>3. \A o \in Requests : requests'[o].pc \in {"throwaway", "opening"} /\ requests'[o].profile \in signedOut' => ~requests'[o].signed
    BY <1>1, <1>3, <1>11, <2>1 DEF StaysOut, AtRest
  <2>4. \A o \in Requests : requests[o].pc = "idle" => \A s \in SessionIds, p \in Profiles : ~Claims(o, s, p)
    BY DEF Claims
  <2>5. \A o \in Requests, s \in SessionIds, p \in signedOut' : Claims(o, s, p)' /\ Alive(s) => ~browsers[s].signed
    BY <1>1, <1>4, <1>8, <1>11, <2>1, <2>4 DEF StaysOut, BrowserTyped
  <2> QED BY <1>2, <2>2, <2>3, <2>5 DEF StaysOut, Alive
<1>13. ReadsItsOwn'
  BY <1>1, <1>2, <1>3 DEF ReadsItsOwn, Alive, Tab, AtRest
<1> QED BY <1>5, <1>6, <1>7, <1>9, <1>10, <1>12, <1>13 DEF BrowserInv

LEMMA ClosesOutKeeps ==
  ASSUME BrowserInv, NEW r \in Requests, ClosesOut(r)
  PROVE  BrowserInv'
<1>1. BrowserTyped /\ CallsTrue /\ TabsTrue /\ ClaimsAgree /\ ForgetAlone /\ StaysOut /\ ReadsItsOwn
  BY DEF BrowserInv
<1>2. /\ requests[r].pc = "closing" /\ browsers' = [browsers EXCEPT ![requests[r].sid].state = "closed"]
      /\ UNCHANGED <<profileSessions, jars, locks, idle, signedOut>>
  BY Zenon DEF ClosesOut
<1>3. \/ requests[r].op = "forget" /\ Goes(r, "forgetting")
      \/ requests[r].op \in {"act", "login"} /\ Goes(r, "reaping")
      \/ Responds(r)
  BY DEF ClosesOut
<1>4. requests[r].sid \in SessionIds
  BY <1>1, <1>2 DEF CallsTrue, InTab
<1>5. /\ requests' \in [Requests -> CallRecords]
      /\ \A o \in Requests \ {r} : requests'[o] = requests[o]
      /\ \/ requests'[r] = AtRest
         \/ /\ requests'[r].op = requests[r].op /\ requests'[r].profile = requests[r].profile
            /\ requests'[r].named = requests[r].named /\ requests'[r].todo = requests[r].todo
            /\ requests'[r].alone = requests[r].alone
            /\ \/ requests[r].op = "forget" /\ requests'[r].pc = "forgetting"
               \/ requests[r].op \in {"act", "login"} /\ requests'[r].pc = "reaping"
  <2>1. "forgetting" \in Stages /\ "reaping" \in Stages
    BY DEF Stages
  <2>2. CASE requests[r].op = "forget" /\ Goes(r, "forgetting")
    BY Zenon, <1>1, <2>1, <2>2, Going
  <2>3. CASE requests[r].op \in {"act", "login"} /\ Goes(r, "reaping")
    BY Zenon, <1>1, <2>1, <2>3, Going
  <2>4. CASE Responds(r)
    BY Zenon, <1>1, <2>4, Responding
  <2> QED BY <1>3, <2>2, <2>3, <2>4
<1>6. /\ browsers' \in [SessionIds -> TabRecords] /\ browsers'[requests[r].sid].state = "closed"
      /\ \A s \in SessionIds : s # requests[r].sid => browsers'[s].state = browsers[s].state
      /\ \A s \in SessionIds :
           /\ browsers'[s].profile = browsers[s].profile /\ browsers'[s].signed = browsers[s].signed
           /\ browsers'[s].pages = browsers[s].pages /\ browsers'[s].active = browsers[s].active
  BY ZenonT(60), <1>1, <1>2, <1>4 DEF BrowserTyped, TabRecords
<1>7. \A s \in SessionIds : Alive(s)' => s # requests[r].sid /\ Alive(s)
  BY <1>6 DEF Alive
<1>8. BrowserTyped'
  BY <1>1, <1>2, <1>5, <1>6 DEF BrowserTyped
<1>9. CallsTrue'
  BY <1>1, <1>2, <1>5, <1>6 DEF CallsTrue, AtRest, InTab
<1>10. TabsTrue'
  <2>1. \A s \in SessionIds : Alive(s)' => browsers'[s].active \in DOMAIN browsers'[s].pages
    BY <1>1, <1>6, <1>7 DEF TabsTrue
  <2>2. \A p \in Profiles : profileSessions'[p] \in Open' => browsers'[profileSessions'[p]].profile = p
    BY <1>1, <1>2, <1>6 DEF TabsTrue, Open
  <2>3. \A p \in Profiles : profileSessions'[p] # 0 => browsers'[profileSessions'[p]].state # "unused"
    BY <1>1, <1>2, <1>6 DEF TabsTrue, BrowserTyped
  <2>4. \A s \in SessionIds : browsers'[s].state = "popped" =>
          \E o \in Requests : requests'[o].pc \in {"saving", "closing"} /\ requests'[o].sid = s
    BY <1>1, <1>5, <1>6 DEF TabsTrue
  <2> QED BY <2>1, <2>2, <2>3, <2>4 DEF TabsTrue
<1>11. \A o \in Requests, s \in SessionIds, p \in Profiles : Claims(o, s, p)' => Claims(o, s, p)
  BY <1>5 DEF Claims, AtRest
<1>12. ClaimsAgree'
  BY <1>1, <1>6, <1>11 DEF ClaimsAgree
<1>13. ForgetAlone'
  <2>1. \A o \in Requests : requests'[o].op = "forget" /\ requests'[o].alone =>
          /\ requests[o].op = "forget" /\ requests[o].alone
          /\ requests'[o].profile = requests[o].profile /\ requests'[o].todo = requests[o].todo
    BY <1>5 DEF AtRest
  <2>2. \A o \in Requests : requests[o].pc = "idle" => requests'[o].pc = "idle"
    BY <1>2, <1>5 DEF AtRest
  <2> QED BY <1>1, <1>6, <1>7, <2>1, <2>2 DEF ForgetAlone
<1>14. StaysOut'
  <2>1. SignOutFinal'
    BY <1>1, <1>2, <1>6, <1>7 DEF StaysOut, SignOutFinal
  <2>2. \A o \in Requests : requests'[o].pc \in {"throwaway", "opening"} /\ requests'[o].profile \in signedOut => ~requests'[o].signed
    BY <1>1, <1>5 DEF StaysOut, AtRest
  <2>3. \A o \in Requests, s \in SessionIds, p \in signedOut : Claims(o, s, p)' /\ Alive(s)' => ~browsers'[s].signed
    BY <1>1, <1>6, <1>7, <1>11 DEF StaysOut, BrowserTyped
  <2> QED BY <1>2, <2>1, <2>2, <2>3 DEF StaysOut
<1>15. ReadsItsOwn'
  BY <1>1, <1>5, <1>6, <1>7 DEF ReadsItsOwn, Tab, AtRest, CallsTrue, InTab
<1> QED BY <1>8, <1>9, <1>10, <1>12, <1>13, <1>14, <1>15 DEF BrowserInv

\* A tab is taken out of the table by a request that goes on to save its cookies and
\* close it.  What the request was before takes no tab for its own.
LEMMA TakenOut ==
  ASSUME BrowserInv, NEW r \in Requests, NEW s \in Open,
         browsers' = Moved(s, "popped", browsers[s].profile), profileSessions' = Unmapped(s), idle' = idle \ {s},
         UNCHANGED signedOut,
         jars' \in [Profiles -> {"absent", "plain", "signed"}], \A p \in signedOut : jars'[p] # "signed",
         locks' \in [SessionIds -> Requests \cup {Nobody}],
         \A o \in Requests \ {r} : requests[o].pc \in {"driving", "showing"} => locks'[requests[o].sid] = o,
         requests' \in [Requests -> CallRecords],
         requests[r].pc \in {"idle", "reaping", "driving"},
         requests'[r].pc = "saving", requests'[r].sid = s, requests'[r].saveAs = browsers[s].profile,
         requests'[r].op \in {"act", "login", "close"},
         requests'[r].op = "login" => requests'[r].profile \in Profiles /\ requests'[r].named = 0,
         \A o \in Requests \ {r} :
           /\ requests'[o].pc = requests[o].pc /\ requests'[o].op = requests[o].op
           /\ requests'[o].profile = requests[o].profile /\ requests'[o].named = requests[o].named
           /\ requests'[o].sid = requests[o].sid /\ requests'[o].signed = requests[o].signed
           /\ requests'[o].todo = requests[o].todo /\ requests'[o].saveAs = requests[o].saveAs
           /\ requests'[o].alone => requests[o].alone /\ requests[r].pc # "idle"
  PROVE  BrowserInv'
<1>1. BrowserTyped /\ CallsTrue /\ TabsTrue /\ ClaimsAgree /\ ForgetAlone /\ StaysOut /\ ReadsItsOwn
  BY DEF BrowserInv
<1>2. s \in SessionIds /\ browsers[s].state = "open" /\ browsers[s].profile \in Portals
  BY <1>1 DEF Open, BrowserTyped, TabRecords
<1>3. /\ browsers' \in [SessionIds -> TabRecords] /\ browsers'[s].state = "popped"
      /\ \A t \in SessionIds : t # s => browsers'[t].state = browsers[t].state
      /\ \A t \in SessionIds :
           /\ browsers'[t].profile = browsers[t].profile /\ browsers'[t].signed = browsers[t].signed
           /\ browsers'[t].pages = browsers[t].pages /\ browsers'[t].active = browsers[t].active
  BY <1>1, <1>2, Moving
<1>4. \A t \in SessionIds : Alive(t)' <=> Alive(t)
  BY <1>2, <1>3 DEF Alive
<1>5. /\ profileSessions' \in [Profiles -> 0 .. MaxSessions]
      /\ \A p \in Profiles : profileSessions'[p] \in {0, profileSessions[p]}
  BY <1>1, BrowserAssumption DEF BrowserTyped, Unmapped
<1>6. BrowserTyped'
  BY <1>1, <1>3, <1>5 DEF BrowserTyped
<1>7. CallsTrue'
  BY <1>1, <1>2, <1>3 DEF CallsTrue, InTab
<1>8. TabsTrue'
  <2>1. \A t \in SessionIds : Alive(t)' => browsers'[t].active \in DOMAIN browsers'[t].pages
    BY <1>1, <1>3, <1>4 DEF TabsTrue
  <2>2. \A p \in Profiles : profileSessions'[p] \in Open' => browsers'[profileSessions'[p]].profile = p
    BY SMTT(60), <1>1, <1>3, <1>5, BrowserAssumption DEF TabsTrue, Open, SessionIds
  <2>3. \A p \in Profiles : profileSessions'[p] # 0 => browsers'[profileSessions'[p]].state # "unused"
    <3>1. \A t \in SessionIds : browsers'[t].state = "unused" => browsers[t].state = "unused"
      BY <1>3
    <3>2. \A p \in Profiles : profileSessions'[p] # 0 => profileSessions'[p] = profileSessions[p] /\ profileSessions'[p] \in SessionIds
      BY <1>5, BrowserAssumption DEF SessionIds
    <3> QED BY <1>1, <3>1, <3>2 DEF TabsTrue
  <2>4. \A t \in SessionIds : browsers'[t].state = "popped" =>
          \E o \in Requests : requests'[o].pc \in {"saving", "closing"} /\ requests'[o].sid = t
    BY <1>1, <1>2, <1>3 DEF TabsTrue
  <2> QED BY <2>1, <2>2, <2>3, <2>4 DEF TabsTrue
<1>9. \A o \in Requests, t \in SessionIds, p \in Profiles : Claims(o, t, p)' =>
        \/ o # r /\ Claims(o, t, p)
        \/ t = s /\ p = browsers[s].profile
  BY <1>1 DEF Claims
<1>10. ClaimsAgree'
  BY SMTT(60), <1>1, <1>2, <1>3, <1>9, BrowserAssumption DEF ClaimsAgree
<1>11. ForgetAlone'
  <2>1. \A o \in Requests : requests'[o].op = "forget" => ~requests'[o].alone
    BY <1>1 DEF ForgetAlone
  <2> QED BY <2>1 DEF ForgetAlone
<1>12. StaysOut'
  <2>1. SignOutFinal'
    BY <1>1, <1>3, <1>4 DEF StaysOut, SignOutFinal
  <2>2. \A o \in Requests : requests'[o].pc \in {"throwaway", "opening"} /\ requests'[o].profile \in signedOut => ~requests'[o].signed
    BY SMTT(60), <1>1 DEF StaysOut
  <2>3. \A o \in Requests, t \in SessionIds, p \in signedOut : Claims(o, t, p)' /\ Alive(t)' => ~browsers'[t].signed
    BY <1>1, <1>2, <1>3, <1>4, <1>9 DEF StaysOut, SignOutFinal, BrowserTyped
  <2> QED BY <2>1, <2>2, <2>3 DEF StaysOut
<1>13. ReadsItsOwn'
  BY <1>1, <1>3, <1>4 DEF ReadsItsOwn, Tab, CallsTrue, InTab
<1> QED BY <1>6, <1>7, <1>8, <1>10, <1>11, <1>12, <1>13 DEF BrowserInv

LEMMA PopKeeps ==
  ASSUME BrowserInv, NEW r \in Requests, NEW s \in Open, NEW todo \in SUBSET (0 .. MaxSessions),
         Pops(r, s, todo), requests[r].pc \in {"reaping", "driving"}, requests[r].op \in {"act", "login"},
         UNCHANGED signedOut,
         jars' \in [Profiles -> {"absent", "plain", "signed"}], \A p \in signedOut : jars'[p] # "signed",
         locks' \in [SessionIds -> Requests \cup {Nobody}],
         \A o \in Requests \ {r} : requests[o].pc \in {"driving", "showing"} => locks'[requests[o].sid] = o
  PROVE  BrowserInv'
<1>1. BrowserTyped /\ CallsTrue
  BY DEF BrowserInv
<1>2. /\ browsers' = Moved(s, "popped", browsers[s].profile) /\ profileSessions' = Unmapped(s) /\ idle' = idle \ {s}
      /\ GoesOn(r, "saving", s, todo, requests[r].signed, browsers[s].profile)
  BY Zenon DEF Pops
<1>3. /\ "saving" \in Stages /\ s \in 0 .. MaxSessions /\ requests[r].signed \in BOOLEAN /\ browsers[s].profile \in Portals
  BY <1>1, BrowserAssumption DEF Stages, Open, SessionIds, BrowserTyped, CallRecords, TabRecords
<1>4. /\ requests' \in [Requests -> CallRecords]
      /\ requests'[r].pc = "saving" /\ requests'[r].op = requests[r].op /\ requests'[r].profile = requests[r].profile
      /\ requests'[r].named = requests[r].named /\ requests'[r].sid = s
      /\ requests'[r].saveAs = browsers[s].profile
      /\ \A o \in Requests \ {r} : requests'[o] = requests[o]
  BY <1>1, <1>2, <1>3, GoingOn
<1>5. /\ requests'[r].op \in {"act", "login", "close"}
      /\ requests'[r].op = "login" => requests'[r].profile \in Profiles /\ requests'[r].named = 0
  BY <1>1, <1>4 DEF CallsTrue
<1>6. \A o \in Requests \ {r} :
        /\ requests'[o].pc = requests[o].pc /\ requests'[o].op = requests[o].op
        /\ requests'[o].profile = requests[o].profile /\ requests'[o].named = requests[o].named
        /\ requests'[o].sid = requests[o].sid /\ requests'[o].signed = requests[o].signed
        /\ requests'[o].todo = requests[o].todo /\ requests'[o].saveAs = requests[o].saveAs
        /\ requests'[o].alone => requests[o].alone /\ requests[r].pc # "idle"
  BY <1>4
<1>7. requests[r].pc \in {"idle", "reaping", "driving"}
  OBVIOUS
<1> QED BY <1>2, <1>4, <1>5, <1>6, <1>7, TakenOut

LEMMA ReapsKeeps ==
  ASSUME BrowserInv, NEW r \in Requests, Reaps(r)
  PROVE  BrowserInv'
<1> DEFINE s == Min(Overdue(r))
           todo == {t \in requests[r].todo : t > s}
<1>1. BrowserTyped /\ CallsTrue
  BY DEF BrowserInv
<1>2. /\ requests[r].pc = "reaping" /\ Overdue(r) # {} /\ Pops(r, s, todo) /\ UNCHANGED <<jars, locks, signedOut>>
  BY Zenon DEF Reaps
<1>3. Overdue(r) \in SUBSET SessionIds /\ Overdue(r) \subseteq Open
  BY DEF Overdue, Open
<1>4. s \in Open
  BY <1>2, <1>3, LeastSession
<1>5. todo \in SUBSET (0 .. MaxSessions)
  BY <1>1 DEF BrowserTyped, CallRecords
<1>6. requests[r].op \in {"act", "login"}
  BY <1>1, <1>2 DEF CallsTrue, BrowserTyped, CallRecords
<1>7. jars' \in [Profiles -> {"absent", "plain", "signed"}] /\ \A p \in signedOut : jars'[p] # "signed"
  BY <1>2 DEF BrowserInv, BrowserTyped, StaysOut, SignOutFinal
<1>8. locks' \in [SessionIds -> Requests \cup {Nobody}]
      /\ \A o \in Requests \ {r} : requests[o].pc \in {"driving", "showing"} => locks'[requests[o].sid] = o
  BY <1>1, <1>2 DEF BrowserTyped, CallsTrue
<1> HIDE DEF s, todo
<1> QED BY <1>2, <1>4, <1>5, <1>6, <1>7, <1>8, PopKeeps

LEMMA ActEndsKeeps ==
  ASSUME BrowserInv, NEW r \in Requests, NEW close \in BOOLEAN, ActEnds(r, close)
  PROVE  BrowserInv'
<1> DEFINE s == requests[r].sid
<1>1. /\ requests[r].pc = "driving" /\ requests[r].op = "act"
      /\ jars' = Saved(browsers[s].profile, s) /\ Releases(r) /\ UNCHANGED signedOut
      /\ \/ s \in Open /\ Pops(r, s, {0})
         \/ Responds(r) /\ UNCHANGED <<browsers, profileSessions, idle>>
  BY Zenon DEF ActEnds
<1>2. /\ s \in SessionIds /\ locks' \in [SessionIds -> Requests \cup {Nobody}]
      /\ \A o \in Requests \ {r} : requests[o].pc \in {"driving", "showing"} => locks'[requests[o].sid] = o
  BY <1>1, Releasing
<1>3. browsers[s].profile \in Portals
  BY <1>2 DEF BrowserInv, BrowserTyped, TabRecords
<1>4. jars' \in [Profiles -> {"absent", "plain", "signed"}] /\ \A p \in signedOut : jars'[p] # "signed"
  BY Zenon, <1>1, <1>2, <1>3, SavingTrue
<1>5. /\ requests[r].pc \in {"reaping", "driving"} /\ requests[r].pc \notin {"saving", "closing"}
      /\ requests[r].op \in {"act", "login"} /\ {0} \in SUBSET (0 .. MaxSessions)
  BY <1>1, BrowserAssumption
<1> HIDE DEF s
<1>6. CASE s \in Open /\ Pops(r, s, {0})
  BY <1>1, <1>2, <1>4, <1>5, <1>6, PopKeeps
<1>7. CASE Responds(r) /\ UNCHANGED <<browsers, profileSessions, idle>>
  BY <1>1, <1>2, <1>4, <1>5, <1>7, StageKeeps
<1> QED BY <1>1, <1>6, <1>7

LEMMA LoginFailsKeeps ==
  ASSUME BrowserInv, NEW r \in Requests, LoginFails(r)
  PROVE  BrowserInv'
<1> DEFINE s == requests[r].sid
<1>1. /\ requests[r].pc = "driving" /\ requests[r].op = "login" /\ Releases(r) /\ UNCHANGED <<jars, signedOut>>
      /\ \/ s \in Open /\ Pops(r, s, {0})
         \/ Responds(r) /\ UNCHANGED <<browsers, profileSessions, idle>>
  BY Zenon DEF LoginFails
<1>2. /\ locks' \in [SessionIds -> Requests \cup {Nobody}]
      /\ \A o \in Requests \ {r} : requests[o].pc \in {"driving", "showing"} => locks'[requests[o].sid] = o
  BY <1>1, Releasing
<1>3. jars' \in [Profiles -> {"absent", "plain", "signed"}] /\ \A p \in signedOut : jars'[p] # "signed"
  BY <1>1 DEF BrowserInv, BrowserTyped, StaysOut, SignOutFinal
<1>4. /\ requests[r].pc \in {"reaping", "driving"} /\ requests[r].pc \notin {"saving", "closing"}
      /\ requests[r].op \in {"act", "login"} /\ {0} \in SUBSET (0 .. MaxSessions)
  BY <1>1, BrowserAssumption
<1> HIDE DEF s
<1>5. CASE s \in Open /\ Pops(r, s, {0})
  BY <1>1, <1>2, <1>3, <1>4, <1>5, PopKeeps
<1>6. CASE Responds(r) /\ UNCHANGED <<browsers, profileSessions, idle>>
  BY <1>1, <1>2, <1>3, <1>4, <1>6, StageKeeps
<1> QED BY <1>1, <1>5, <1>6

LEMMA CloseProfileKeeps ==
  ASSUME BrowserInv, NEW r \in Requests, NEW s \in SessionIds, CloseProfile(r, s)
  PROVE  BrowserInv'
<1>1. /\ s \in Open /\ Arrives(r, "close", "saving", Public, 0, s, FALSE, {}, browsers[s].profile)
      /\ browsers' = Moved(s, "popped", browsers[s].profile) /\ profileSessions' = Unmapped(s) /\ idle' = idle \ {s}
      /\ UNCHANGED <<jars, locks, signedOut>>
  BY Zenon DEF CloseProfile
<1>2. BrowserTyped /\ CallsTrue
  BY DEF BrowserInv
<1>3. /\ "saving" \in Stages /\ s \in 0 .. MaxSessions /\ 0 \in 0 .. MaxSessions /\ Public \in Portals
      /\ browsers[s].profile \in Portals /\ {} \in SUBSET (0 .. MaxSessions)
  BY <1>2, BrowserAssumption DEF Stages, SessionIds, BrowserTyped, TabRecords, Portals
<1>4. Arrived(r, "close", "saving", Public, 0, s, FALSE, {}, browsers[s].profile)
  BY <1>1, <1>2, <1>3, Arriving
<1>5. /\ requests' \in [Requests -> CallRecords] /\ requests[r].pc \in {"idle", "reaping", "driving"}
      /\ requests'[r].pc = "saving" /\ requests'[r].sid = s /\ requests'[r].saveAs = browsers[s].profile
      /\ requests'[r].op \in {"act", "login", "close"} /\ requests'[r].op # "login"
  BY <1>4 DEF Arrived
<1>6. \A o \in Requests \ {r} :
        /\ requests'[o].pc = requests[o].pc /\ requests'[o].op = requests[o].op
        /\ requests'[o].profile = requests[o].profile /\ requests'[o].named = requests[o].named
        /\ requests'[o].sid = requests[o].sid /\ requests'[o].signed = requests[o].signed
        /\ requests'[o].todo = requests[o].todo /\ requests'[o].saveAs = requests[o].saveAs
        /\ requests'[o].alone => requests[o].alone /\ requests[r].pc # "idle"
  BY <1>4 DEF Arrived
<1>7. jars' \in [Profiles -> {"absent", "plain", "signed"}] /\ \A p \in signedOut : jars'[p] # "signed"
  BY <1>1 DEF BrowserInv, BrowserTyped, StaysOut, SignOutFinal
<1>8. locks' \in [SessionIds -> Requests \cup {Nobody}]
      /\ \A o \in Requests \ {r} : requests[o].pc \in {"driving", "showing"} => locks'[requests[o].sid] = o
  BY <1>1, <1>2 DEF BrowserTyped, CallsTrue
<1> QED BY <1>1, <1>5, <1>6, <1>7, <1>8, TakenOut

LEMMA FindsKeeps ==
  ASSUME BrowserInv, NEW r \in Requests, Finds(r)
  PROVE  BrowserInv'
<1> DEFINE q == requests[r]
           found == IF q.named \in Open THEN q.named ELSE IF q.named = 0 THEN Live(q.profile) ELSE 0
           stage == IF found # 0 THEN "waiting" ELSE "opening"
<1>1. BrowserTyped /\ CallsTrue /\ TabsTrue /\ ClaimsAgree /\ ForgetAlone /\ StaysOut /\ ReadsItsOwn
  BY DEF BrowserInv
<1>2. /\ q.pc = "reaping" /\ GoesOn(r, stage, found, {}, Cookies(q.profile), q.saveAs)
      /\ idle' = idle \ {found}
      /\ profileSessions' = IF q.named = 0 THEN Pruned(q.profile) ELSE profileSessions
      /\ UNCHANGED <<browsers, jars, locks, signedOut>>
  BY Zenon DEF Finds
<1>3. /\ q.op \in {"act", "login"} /\ q.profile \in Portals /\ q.saveAs \in Portals /\ q.named \in 0 .. MaxSessions
      /\ q.op = "login" => q.profile \in Profiles /\ q.named = 0
  BY <1>1, <1>2 DEF CallsTrue, BrowserTyped, CallRecords
<1>4. /\ Live(q.profile) \in 0 .. MaxSessions
      /\ Live(q.profile) # 0 => q.profile \in Profiles /\ Live(q.profile) \in Open /\ browsers[Live(q.profile)].profile = q.profile
      /\ Pruned(q.profile) \in [Profiles -> 0 .. MaxSessions]
      /\ \A p \in Profiles : Pruned(q.profile)[p] \in {0, profileSessions[p]}
  BY <1>1, <1>3, LiveTab
<1>5. /\ found \in 0 .. MaxSessions
      /\ found # 0 => found \in Open
      /\ q.op = "login" /\ found # 0 => browsers[found].profile = q.profile
  BY <1>3, <1>4, BrowserAssumption DEF Open, SessionIds
<1>6. stage \in Stages /\ {} \in SUBSET (0 .. MaxSessions) /\ Cookies(q.profile) \in BOOLEAN
  BY DEF Stages, Cookies
<1>7. /\ requests' \in [Requests -> CallRecords]
      /\ requests'[r].pc = stage /\ requests'[r].op = q.op /\ requests'[r].profile = q.profile
      /\ requests'[r].named = q.named /\ requests'[r].sid = found /\ requests'[r].signed = Cookies(q.profile)
      /\ \A o \in Requests \ {r} : requests'[o] = requests[o]
  BY <1>1, <1>2, <1>3, <1>5, <1>6, GoingOn
<1>8. (stage = "waiting" /\ found \in Open) \/ stage = "opening"
  BY <1>5
<1>9. /\ profileSessions' \in [Profiles -> 0 .. MaxSessions]
      /\ \A p \in Profiles : profileSessions'[p] \in {0, profileSessions[p]}
  BY <1>1, <1>2, <1>4 DEF BrowserTyped
<1> HIDE DEF q, found, stage
<1>10. BrowserTyped'
  BY <1>1, <1>2, <1>7, <1>9 DEF BrowserTyped
<1>11. CallsTrue'
  BY <1>1, <1>2, <1>3, <1>7, <1>8 DEF CallsTrue, InTab, Open
<1>12. TabsTrue'
  BY <1>1, <1>2, <1>7, <1>9, BrowserAssumption DEF TabsTrue, Open, Alive, SessionIds, q
<1>13. \A o \in Requests, s \in SessionIds, p \in Profiles : Claims(o, s, p)' =>
         Claims(o, s, p) \/ (browsers[s].state = "open" /\ browsers[s].profile = p)
  BY <1>3, <1>5, <1>7, <1>8, BrowserAssumption DEF Claims, Open, SessionIds
<1>14. ClaimsAgree'
  BY <1>1, <1>2, <1>13, BrowserAssumption DEF ClaimsAgree
<1>15. ForgetAlone'
  <2>1. \A o \in Requests : requests'[o].op = "forget" => ~requests'[o].alone
    BY <1>1, <1>2, <1>3, <1>7 DEF ForgetAlone, q
  <2> QED BY <2>1 DEF ForgetAlone
<1>16. StaysOut'
  <2>1. SignOutFinal'
    BY <1>1, <1>2 DEF StaysOut, SignOutFinal, Alive
  <2>2. q.profile \in signedOut => ~Cookies(q.profile)
    BY <1>1 DEF StaysOut, SignOutFinal, Cookies
  <2>3. \A o \in Requests : requests'[o].pc \in {"throwaway", "opening"} /\ requests'[o].profile \in signedOut => ~requests'[o].signed
    BY <1>1, <1>7, <2>2 DEF StaysOut
  <2>4. \A o \in Requests, s \in SessionIds, p \in signedOut : Claims(o, s, p)' /\ Alive(s) => ~browsers[s].signed
    BY <1>1, <1>13 DEF StaysOut, SignOutFinal, BrowserTyped
  <2> QED BY <1>2, <2>1, <2>3, <2>4 DEF StaysOut, Alive
<1>17. ReadsItsOwn'
  BY <1>1, <1>2, <1>7, <1>8 DEF ReadsItsOwn, Tab, Alive
<1> QED BY <1>10, <1>11, <1>12, <1>14, <1>15, <1>16, <1>17 DEF BrowserInv

LEMMA OpensKeeps ==
  ASSUME BrowserInv, NEW r \in Requests, Opens(r)
  PROVE  BrowserInv'
<1> DEFINE q == requests[r]
           fresh == {s \in SessionIds : browsers[s].state = "unused"}
           s == Min(fresh)
           new == [state |-> "open", profile |-> q.profile, signed |-> q.signed, pages |-> <<r>>, active |-> 1]
<1>1. BrowserTyped /\ CallsTrue /\ TabsTrue /\ ClaimsAgree /\ ForgetAlone /\ StaysOut /\ ReadsItsOwn
  BY DEF BrowserInv
<1>2. /\ q.pc = "opening" /\ fresh # {} /\ browsers' = [browsers EXCEPT ![s] = new]
      /\ profileSessions' = IF q.profile \in Profiles THEN [profileSessions EXCEPT ![q.profile] = s] ELSE profileSessions
      /\ GoesOn(r, "waiting", s, q.todo, q.signed, q.saveAs)
      /\ UNCHANGED <<jars, locks, idle, signedOut>>
  BY Zenon DEF Opens
<1>3. s \in SessionIds /\ browsers[s].state = "unused"
  <2>1. fresh \in SUBSET SessionIds
    OBVIOUS
  <2>2. s \in fresh
    BY <1>2, <2>1, LeastSession
  <2> QED BY <2>2
<1>4. /\ q.op \in {"act", "login"} /\ q.profile \in Portals /\ q.saveAs \in Portals
      /\ q.op = "login" => q.profile \in Profiles /\ q.named = 0
      /\ q.signed \in BOOLEAN /\ q.todo \in SUBSET (0 .. MaxSessions)
  BY <1>1, <1>2 DEF CallsTrue, BrowserTyped, CallRecords
<1>5. s \in 0 .. MaxSessions /\ "waiting" \in Stages
  BY <1>3, BrowserAssumption DEF SessionIds, Stages
<1>6. new \in TabRecords /\ 1 \in DOMAIN new.pages
  BY <1>4 DEF TabRecords
<1>7. new.state = "open" /\ new.profile = q.profile /\ new.signed = q.signed /\ new.active = 1
  OBVIOUS
<1> HIDE DEF s, fresh, new
<1>8. browsers' \in [SessionIds -> TabRecords] /\ browsers'[s] = new /\ \A t \in SessionIds \ {s} : browsers'[t] = browsers[t]
  BY <1>1, <1>2, <1>3, <1>6 DEF BrowserTyped
<1>9. BrowserTyped /\ GoesOn(r, "waiting", s, q.todo, q.signed, q.saveAs)
  BY <1>1, <1>2
<1>10. /\ requests' \in [Requests -> CallRecords]
      /\ requests'[r].pc = "waiting" /\ requests'[r].op = q.op /\ requests'[r].profile = q.profile
      /\ requests'[r].named = q.named /\ requests'[r].sid = s
      /\ \A o \in Requests \ {r} : requests'[o] = requests[o]
  BY <1>9, <1>4, <1>5, GoingOn
<1>11. /\ profileSessions' \in [Profiles -> 0 .. MaxSessions]
      /\ \A p \in Profiles : profileSessions'[p] = profileSessions[p] \/ (profileSessions'[p] = s /\ p = q.profile)
  BY <1>1, <1>2, <1>5 DEF BrowserTyped
<1> HIDE DEF q
<1>12. BrowserTyped'
  BY <1>1, <1>2, <1>8, <1>10, <1>11 DEF BrowserTyped
<1>13. CallsTrue'
  BY <1>1, <1>2, <1>3, <1>4, <1>7, <1>8, <1>10 DEF CallsTrue, InTab
<1>14. TabsTrue'
  <2>1. \A t \in SessionIds : Alive(t)' => browsers'[t].active \in DOMAIN browsers'[t].pages
    BY <1>1, <1>6, <1>7, <1>8 DEF TabsTrue, Alive
  <2>2. \A p \in Profiles : profileSessions'[p] \in Open' => browsers'[profileSessions'[p]].profile = p
    BY <1>1, <1>3, <1>7, <1>8, <1>11 DEF TabsTrue, Open, SessionIds
  <2>3. \A p \in Profiles : profileSessions'[p] # 0 => browsers'[profileSessions'[p]].state # "unused"
    <3>1. \A t \in SessionIds : browsers'[t].state = "unused" => t # s /\ browsers[t].state = "unused"
      BY <1>3, <1>7, <1>8
    <3>2. \A p \in Profiles : profileSessions'[p] # 0 => profileSessions'[p] \in SessionIds
      BY <1>11, BrowserAssumption DEF SessionIds
    <3> QED BY <1>1, <1>11, <3>1, <3>2 DEF TabsTrue
  <2>4. \A t \in SessionIds : browsers'[t].state = "popped" =>
          \E o \in Requests : requests'[o].pc \in {"saving", "closing"} /\ requests'[o].sid = t
    <3>1. \A t \in SessionIds : browsers'[t].state = "popped" => browsers[t].state = "popped"
      BY <1>7, <1>8
    <3> QED BY <1>1, <1>2, <1>10, <3>1 DEF TabsTrue, q
  <2> QED BY <2>1, <2>2, <2>3, <2>4 DEF TabsTrue
<1>15. \A o \in Requests, t \in SessionIds, p \in Profiles : Claims(o, t, p)' =>
         \/ t # s /\ Claims(o, t, p)
         \/ t = s /\ p = q.profile
  BY <1>1, <1>3, <1>10 DEF Claims, CallsTrue, InTab
<1>16. ClaimsAgree'
  BY <1>1, <1>7, <1>8, <1>15 DEF ClaimsAgree
<1>17. ForgetAlone'
  <2>1. \A o \in Requests : requests'[o].op = "forget" => ~requests'[o].alone
    BY <1>1, <1>2, <1>4, <1>10 DEF ForgetAlone, q
  <2> QED BY <2>1 DEF ForgetAlone
<1>18. StaysOut'
  <2>1. q.profile \in signedOut => ~q.signed
    BY <1>1, <1>2 DEF StaysOut, q
  <2>2. SignOutFinal'
    BY <1>1, <1>2, <1>7, <1>8, <2>1 DEF StaysOut, SignOutFinal, Alive
  <2>3. \A o \in Requests : requests'[o].pc \in {"throwaway", "opening"} /\ requests'[o].profile \in signedOut => ~requests'[o].signed
    BY <1>1, <1>10 DEF StaysOut
  <2>4. \A o \in Requests, t \in SessionIds, p \in signedOut : Claims(o, t, p)' /\ Alive(t)' => ~browsers'[t].signed
    BY <1>1, <1>7, <1>8, <1>15, <2>1 DEF StaysOut, Alive, BrowserTyped
  <2> QED BY <1>2, <2>2, <2>3, <2>4 DEF StaysOut
<1>19. ReadsItsOwn'
  BY <1>1, <1>3, <1>8, <1>10 DEF ReadsItsOwn, Tab, Alive, CallsTrue, InTab
<1> QED BY <1>12, <1>13, <1>14, <1>16, <1>17, <1>18, <1>19 DEF BrowserInv

\* The pages of a tab change only under its lock, held by the request that drives it.
LEMMA DrivesKeeps ==
  ASSUME BrowserInv, NEW r \in Requests, NEW pages \in Seq(Requests), NEW active \in Nat,
         active \in DOMAIN pages, requests[r].pc = "driving", Alive(requests[r].sid),
         browsers' = Turned(requests[r].sid, pages, active),
         UNCHANGED <<profileSessions, jars, locks, idle, signedOut>>,
         \/ UNCHANGED requests
         \/ Goes(r, "showing") /\ requests[r].op = "read" /\ pages[active] = r
  PROVE  BrowserInv'
<1> DEFINE s == requests[r].sid
<1>1. BrowserTyped /\ CallsTrue /\ TabsTrue /\ ClaimsAgree /\ ForgetAlone /\ StaysOut /\ ReadsItsOwn
  BY DEF BrowserInv
<1>2. s \in SessionIds /\ locks[s] = r
  BY <1>1 DEF CallsTrue, InTab
<1>3. /\ browsers' \in [SessionIds -> TabRecords]
      /\ browsers'[s].pages = pages /\ browsers'[s].active = active
      /\ \A t \in SessionIds \ {s} : browsers'[t] = browsers[t]
      /\ browsers'[s].state = browsers[s].state /\ browsers'[s].profile = browsers[s].profile
      /\ browsers'[s].signed = browsers[s].signed
  BY <1>1, <1>2, Turning
<1>4. \A t \in SessionIds : browsers'[t].state = browsers[t].state /\ browsers'[t].profile = browsers[t].profile
                           /\ browsers'[t].signed = browsers[t].signed
  BY <1>3
<1>5. \A t \in SessionIds : Alive(t)' <=> Alive(t)
  BY <1>4 DEF Alive
<1>6. /\ requests' \in [Requests -> CallRecords]
      /\ \A o \in Requests \ {r} : requests'[o] = requests[o]
      /\ requests'[r].pc = "driving" \/ (requests'[r].pc = "showing" /\ requests[r].op = "read" /\ pages[active] = r)
      /\ requests'[r].op = requests[r].op /\ requests'[r].profile = requests[r].profile
      /\ requests'[r].named = requests[r].named /\ requests'[r].sid = s
      /\ requests'[r].todo = requests[r].todo /\ requests'[r].alone = requests[r].alone
  <2>1. CASE UNCHANGED requests
    BY <1>1, <2>1 DEF BrowserTyped
  <2>2. CASE Goes(r, "showing") /\ requests[r].op = "read" /\ pages[active] = r
    <3>1. "showing" \in Stages
      BY DEF Stages
    <3> QED BY <1>1, <2>2, <3>1, Going
  <2> QED BY <2>1, <2>2
<1> HIDE DEF s
<1>7. BrowserTyped'
  BY <1>1, <1>3, <1>6 DEF BrowserTyped
<1>8. CallsTrue'
  BY <1>1, <1>2, <1>4, <1>6 DEF CallsTrue, InTab, s
<1>9. TabsTrue'
  <2>1. \A t \in SessionIds : Alive(t)' => browsers'[t].active \in DOMAIN browsers'[t].pages
    BY <1>1, <1>3, <1>5 DEF TabsTrue
  <2>2. \A p \in Profiles : profileSessions'[p] \in Open' => browsers'[profileSessions'[p]].profile = p
    BY <1>1, <1>4 DEF TabsTrue, Open
  <2>3. \A p \in Profiles : profileSessions'[p] # 0 => browsers'[profileSessions'[p]].state # "unused"
    BY <1>1, <1>4, BrowserAssumption DEF TabsTrue, BrowserTyped, SessionIds
  <2>4. \A t \in SessionIds : browsers'[t].state = "popped" =>
          \E o \in Requests : requests'[o].pc \in {"saving", "closing"} /\ requests'[o].sid = t
    BY <1>1, <1>4, <1>6 DEF TabsTrue
  <2> QED BY <2>1, <2>2, <2>3, <2>4 DEF TabsTrue
<1>10. \A o \in Requests, t \in SessionIds, p \in Profiles : Claims(o, t, p)' => Claims(o, t, p)
  BY <1>6 DEF Claims, s
<1>11. ClaimsAgree'
  BY <1>1, <1>4, <1>10 DEF ClaimsAgree
<1>12. ForgetAlone'
  BY <1>1, <1>4, <1>5, <1>6 DEF ForgetAlone
<1>13. StaysOut'
  <2>1. SignOutFinal'
    BY <1>1, <1>4, <1>5 DEF StaysOut, SignOutFinal
  <2>2. \A o \in Requests : requests'[o].pc \in {"throwaway", "opening"} /\ requests'[o].profile \in signedOut => ~requests'[o].signed
    BY SMTT(60), <1>1, <1>6 DEF StaysOut
  <2>3. \A o \in Requests, t \in SessionIds, p \in signedOut : Claims(o, t, p)' /\ Alive(t)' => ~browsers'[t].signed
    BY <1>1, <1>4, <1>5, <1>10 DEF StaysOut, BrowserTyped
  <2> QED BY <2>1, <2>2, <2>3 DEF StaysOut
<1>14. ReadsItsOwn'
  <2>1. \A o \in Requests \ {r} : requests[o].pc = "showing" => requests[o].sid # s /\ requests[o].sid \in SessionIds
    BY <1>1, <1>2 DEF CallsTrue, InTab
  <2> QED BY <1>1, <1>3, <1>5, <1>6, <2>1 DEF ReadsItsOwn, Tab
<1> QED BY <1>7, <1>8, <1>9, <1>11, <1>12, <1>13, <1>14 DEF BrowserInv

LEMMA PageShown ==
  ASSUME NEW r \in Requests, NEW pages \in Seq(Requests), NEW i \in DOMAIN pages
  PROVE  /\ [pages EXCEPT ![i] = r] \in Seq(Requests) /\ i \in DOMAIN [pages EXCEPT ![i] = r]
         /\ [pages EXCEPT ![i] = r][i] = r
<1>1. \A j \in DOMAIN pages : [pages EXCEPT ![i] = r][j] \in Requests
  OBVIOUS
<1>2. DOMAIN [pages EXCEPT ![i] = r] = 1 .. Len(pages) /\ Len(pages) \in Nat
  OBVIOUS
<1> QED BY <1>1, <1>2

\* A page that is closed leaves the others, one fewer.
LEMMA PageClosed ==
  ASSUME NEW pages \in Seq(Requests), NEW i \in DOMAIN pages
  PROVE  RemoveAt(pages, i) \in Seq(Requests) /\ Len(RemoveAt(pages, i)) = Len(pages) - 1
<1> DEFINE before == SubSeq(pages, 1, i - 1)
           after == SubSeq(pages, i + 1, Len(pages))
<1>1. i \in 1 .. Len(pages) /\ Len(pages) \in Nat
  OBVIOUS
<1>2. before \in Seq(Requests) /\ Len(before) = i - 1
  BY <1>1
<1>3. after \in Seq(Requests) /\ Len(after) = Len(pages) - i
  BY <1>1
<1>4. RemoveAt(pages, i) = before \o after
  BY Zenon DEF RemoveAt
<1> HIDE DEF before, after
<1>5. before \o after \in Seq(Requests) /\ Len(before \o after) = Len(before) + Len(after)
  BY SMTT(60), <1>2, <1>3
<1> QED BY <1>1, <1>2, <1>3, <1>4, <1>5

LEMMA VisitsKeeps ==
  ASSUME BrowserInv, NEW r \in Requests, Visits(r)
  PROVE  BrowserInv'
<1> DEFINE pages == [Tab(r).pages EXCEPT ![Tab(r).active] = r]
           active == Tab(r).active
<1>1. /\ requests[r].pc = "driving" /\ requests[r].op = "read" /\ Alive(requests[r].sid)
      /\ browsers' = Turned(requests[r].sid, pages, active) /\ Goes(r, "showing")
      /\ UNCHANGED <<profileSessions, jars, locks, idle, signedOut>>
  BY Zenon DEF Visits
<1>2. Tab(r).pages \in Seq(Requests) /\ active \in Nat /\ active \in DOMAIN Tab(r).pages
  BY <1>1 DEF BrowserInv, BrowserTyped, CallsTrue, InTab, TabsTrue, TabRecords, Tab
<1>3. pages \in Seq(Requests) /\ active \in DOMAIN pages /\ pages[active] = r
  BY Zenon, <1>2, PageShown
<1> HIDE DEF pages, active
<1> QED BY <1>1, <1>2, <1>3, DrivesKeeps

LEMMA StepsKeeps ==
  ASSUME BrowserInv, NEW r \in Requests, Steps(r)
  PROVE  BrowserInv'
<1> DEFINE s == requests[r].sid
           pages == Tab(r).pages
           active == Tab(r).active
<1>1. /\ requests[r].pc = "driving" /\ Alive(s) /\ UNCHANGED <<profileSessions, jars, locks, idle, requests, signedOut>>
      /\ \/ browsers' = Turned(s, [pages EXCEPT ![active] = r], active)
         \/ browsers' = Turned(s, Append(pages, r), Len(pages) + 1)
         \/ \E i \in DOMAIN pages : browsers' = Turned(s, pages, i)
         \/ \E i \in DOMAIN pages : Len(pages) > 1 /\ browsers' = Turned(s, RemoveAt(pages, i), AfterClose(s, i))
  BY Zenon DEF Steps
<1>2. /\ pages \in Seq(Requests) /\ active \in Nat /\ active \in DOMAIN pages
      /\ pages = browsers[s].pages /\ active = browsers[s].active
  BY <1>1 DEF BrowserInv, BrowserTyped, CallsTrue, InTab, TabsTrue, TabRecords, Tab
<1> HIDE DEF s, pages, active
<1>3. SUFFICES \E new \in Seq(Requests), shown \in Nat : shown \in DOMAIN new /\ browsers' = Turned(s, new, shown)
  BY <1>1, DrivesKeeps DEF s
<1>4. CASE browsers' = Turned(s, [pages EXCEPT ![active] = r], active)
  BY Zenon, <1>2, <1>4, PageShown
<1>5. CASE browsers' = Turned(s, Append(pages, r), Len(pages) + 1)
  <2>1. Append(pages, r) \in Seq(Requests) /\ Len(pages) + 1 \in Nat /\ Len(pages) + 1 \in DOMAIN Append(pages, r)
    BY <1>2
  <2> QED BY Zenon, <1>5, <2>1
<1>6. CASE \E i \in DOMAIN pages : browsers' = Turned(s, pages, i)
  <2>1. \A i \in DOMAIN pages : i \in Nat
    BY <1>2
  <2> QED BY Zenon, <1>2, <1>6, <2>1
<1>7. CASE \E i \in DOMAIN pages : Len(pages) > 1 /\ browsers' = Turned(s, RemoveAt(pages, i), AfterClose(s, i))
  <2>1. PICK i \in DOMAIN pages : Len(pages) > 1 /\ browsers' = Turned(s, RemoveAt(pages, i), AfterClose(s, i))
    BY <1>7
  <2>2. RemoveAt(pages, i) \in Seq(Requests) /\ Len(RemoveAt(pages, i)) = Len(pages) - 1
    BY <1>2, PageClosed
  <2>3. AfterClose(s, i) \in 1 .. (Len(pages) - 1)
    BY SMTT(60), <1>2, <2>1 DEF AfterClose
  <2>4. AfterClose(s, i) \in Nat /\ AfterClose(s, i) \in DOMAIN RemoveAt(pages, i)
    BY <1>2, <2>2, <2>3
  <2> QED BY Zenon, <2>1, <2>2, <2>4
<1> QED BY <1>1, <1>4, <1>5, <1>6, <1>7

\* A login that succeeds signs in the tab and the cookie file of one portal, and no
\* other portal has a claim to that tab.
LEMMA LoginOkKeeps ==
  ASSUME BrowserInv, NEW r \in Requests, LoginOk(r)
  PROVE  BrowserInv'
<1> DEFINE s == requests[r].sid
           p == requests[r].profile
<1>1. BrowserTyped /\ CallsTrue /\ TabsTrue /\ ClaimsAgree /\ ForgetAlone /\ StaysOut /\ ReadsItsOwn
  BY DEF BrowserInv
<1>2. /\ requests[r].pc = "driving" /\ requests[r].op = "login" /\ Alive(s)
      /\ browsers' = [browsers EXCEPT ![s].signed = TRUE] /\ jars' = [jars EXCEPT ![p] = "signed"]
      /\ signedOut' = signedOut \ {p} /\ Releases(r) /\ Responds(r) /\ UNCHANGED <<profileSessions, idle>>
  BY Zenon DEF LoginOk
<1>3. s \in SessionIds /\ p \in Profiles /\ Claims(r, s, p)
  BY <1>1, <1>2 DEF CallsTrue, InTab, Claims
<1>4. /\ requests' \in [Requests -> CallRecords] /\ requests'[r] = AtRest
      /\ \A o \in Requests \ {r} : requests'[o] = requests[o]
  BY Zenon, <1>1, <1>2, Responding
<1>5. /\ locks' \in [SessionIds -> Requests \cup {Nobody}]
      /\ \A o \in Requests \ {r} : requests[o].pc \in {"driving", "showing"} => locks'[requests[o].sid] = o
  BY <1>2, Releasing
<1>6. browsers' \in [SessionIds -> TabRecords]
  <2>1. [browsers[s] EXCEPT !.signed = TRUE] \in TabRecords
    BY ZenonT(120), <1>1, <1>3 DEF BrowserTyped, TabRecords
  <2>2. browsers' = [browsers EXCEPT ![s] = [browsers[s] EXCEPT !.signed = TRUE]]
    BY Zenon, <1>2
  <2> QED BY <1>1, <1>3, <2>1, <2>2 DEF BrowserTyped
<1>7. \A t \in SessionIds :
        /\ browsers'[t].state = browsers[t].state /\ browsers'[t].profile = browsers[t].profile
        /\ browsers'[t].pages = browsers[t].pages /\ browsers'[t].active = browsers[t].active
        /\ t # s => browsers'[t].signed = browsers[t].signed
  BY ZenonT(60), <1>1, <1>2, <1>3 DEF BrowserTyped, TabRecords
<1> HIDE DEF s, p
<1>8. \A t \in SessionIds : Alive(t)' <=> Alive(t)
  BY <1>7 DEF Alive
<1>9. BrowserTyped'
  BY <1>1, <1>2, <1>3, <1>4, <1>5, <1>6 DEF BrowserTyped
<1>10. CallsTrue'
  BY <1>1, <1>4, <1>5, <1>7 DEF CallsTrue, AtRest, InTab
<1>11. TabsTrue'
  <2>1. \A t \in SessionIds : Alive(t)' => browsers'[t].active \in DOMAIN browsers'[t].pages
    BY <1>1, <1>7, <1>8 DEF TabsTrue
  <2>2. \A q \in Profiles : profileSessions'[q] \in Open' => browsers'[profileSessions'[q]].profile = q
    BY <1>1, <1>2, <1>7 DEF TabsTrue, Open
  <2>3. \A q \in Profiles : profileSessions'[q] # 0 => browsers'[profileSessions'[q]].state # "unused"
    BY <1>1, <1>2, <1>7, BrowserAssumption DEF TabsTrue, BrowserTyped, SessionIds
  <2>4. \A t \in SessionIds : browsers'[t].state = "popped" =>
          \E o \in Requests : requests'[o].pc \in {"saving", "closing"} /\ requests'[o].sid = t
    BY <1>1, <1>2, <1>4, <1>7 DEF TabsTrue
  <2> QED BY <2>1, <2>2, <2>3, <2>4 DEF TabsTrue
<1>12. \A o \in Requests, t \in SessionIds, q \in Profiles : Claims(o, t, q)' => Claims(o, t, q)
  BY <1>4 DEF Claims, AtRest
<1>13. ClaimsAgree'
  BY <1>1, <1>7, <1>12 DEF ClaimsAgree
<1>14. ForgetAlone'
  BY <1>1, <1>4, <1>7, <1>8 DEF ForgetAlone, AtRest
<1>15. StaysOut'
  <2>1. signedOut' \subseteq signedOut /\ p \notin signedOut' /\ signedOut \subseteq Profiles
    BY <1>1, <1>2 DEF BrowserTyped
  <2>2. browsers[s].profile \in {p, Public}
    BY <1>1, <1>3 DEF ClaimsAgree
  <2>3. \A q \in Profiles : q # p => jars'[q] = jars[q]
    BY <1>1, <1>2 DEF BrowserTyped
  <2>4. SignOutFinal'
    BY <1>1, <1>7, <1>8, <2>1, <2>2, <2>3, BrowserAssumption DEF StaysOut, SignOutFinal
  <2>5. \A o \in Requests : requests'[o].pc \in {"throwaway", "opening"} /\ requests'[o].profile \in signedOut' => ~requests'[o].signed
    BY <1>1, <1>4, <2>1 DEF StaysOut, AtRest
  <2>6. \A o \in Requests, q \in signedOut' : ~Claims(o, s, q)
    BY <1>1, <1>3, <2>1 DEF ClaimsAgree
  <2>7. \A o \in Requests, t \in SessionIds, q \in signedOut' : Claims(o, t, q)' /\ Alive(t)' => ~browsers'[t].signed
    BY <1>1, <1>7, <1>8, <1>12, <2>1, <2>6 DEF StaysOut
  <2> QED BY <2>4, <2>5, <2>7 DEF StaysOut
<1>16. ReadsItsOwn'
  BY <1>1, <1>4, <1>7, <1>8 DEF ReadsItsOwn, Tab, AtRest, CallsTrue, InTab
<1> QED BY <1>9, <1>10, <1>11, <1>13, <1>14, <1>15, <1>16 DEF BrowserInv

\* A sign-out takes the portal off its tab before the tab goes, so nobody saves it.
LEMMA ForgetsTabKeeps ==
  ASSUME BrowserInv, NEW r \in Requests, ForgetsTab(r)
  PROVE  BrowserInv'
<1> DEFINE s == Min(TabsOf(r))
<1>1. BrowserTyped /\ CallsTrue /\ TabsTrue /\ ClaimsAgree /\ ForgetAlone /\ StaysOut /\ ReadsItsOwn
  BY DEF BrowserInv
<1>2. /\ requests[r].pc = "forgetting" /\ TabsOf(r) # {}
      /\ \/ /\ s \in Open /\ browsers' = Moved(s, "popped", Public)
            /\ GoesOn(r, "closing", s, requests[r].todo, requests[r].signed, requests[r].saveAs) /\ idle' = idle \ {s}
         \/ s \notin Open /\ browsers' = Moved(s, browsers[s].state, Public) /\ UNCHANGED <<requests, idle>>
      /\ UNCHANGED <<profileSessions, jars, locks, signedOut>>
  BY Zenon DEF ForgetsTab
<1>3. requests[r].op = "forget" /\ requests[r].profile \in Profiles
  BY <1>1, <1>2 DEF CallsTrue, BrowserTyped, CallRecords
<1>4. s \in SessionIds /\ browsers[s].profile = requests[r].profile /\ s \in requests[r].todo
  <2>1. TabsOf(r) \in SUBSET SessionIds
    BY <1>1, <1>3 DEF TabsOf, CallsTrue
  <2>2. s \in TabsOf(r)
    BY <1>2, <2>1, LeastSession
  <2> QED BY <2>1, <2>2 DEF TabsOf
<1>5. /\ requests[r] \in CallRecords /\ requests[r].signed \in BOOLEAN /\ requests[r].saveAs \in Portals
      /\ requests[r].todo \in SUBSET (0 .. MaxSessions) /\ s \in 0 .. MaxSessions /\ Public \in Portals /\ "closing" \in Stages
      /\ browsers[s].state \in {"unused", "open", "popped", "closed"} /\ "popped" \in {"unused", "open", "popped", "closed"}
  BY <1>1, <1>4, BrowserAssumption DEF BrowserTyped, CallRecords, TabRecords, Portals, Stages, SessionIds
<1> HIDE DEF s
<1>6. GoesOn(r, "closing", s, requests[r].todo, requests[r].signed, requests[r].saveAs) =>
        /\ requests' \in [Requests -> CallRecords]
        /\ requests'[r].pc = "closing" /\ requests'[r].op = requests[r].op /\ requests'[r].profile = requests[r].profile
        /\ requests'[r].sid = s /\ requests'[r].todo = requests[r].todo /\ requests'[r].alone = requests[r].alone
        /\ \A o \in Requests \ {r} : requests'[o] = requests[o]
  BY SMTT(60), <1>1, <1>5, GoingOn
<1>7. /\ requests' \in [Requests -> CallRecords] /\ idle' \subseteq SessionIds
      /\ \A o \in Requests \ {r} : requests'[o] = requests[o]
      /\ requests'[r].op = "forget" /\ requests'[r].profile = requests[r].profile
      /\ requests'[r].todo = requests[r].todo /\ requests'[r].alone = requests[r].alone
      /\ requests'[r].pc = "forgetting" \/ (requests'[r].pc = "closing" /\ requests'[r].sid = s)
  <2>1. CASE s \in Open /\ GoesOn(r, "closing", s, requests[r].todo, requests[r].signed, requests[r].saveAs) /\ idle' = idle \ {s}
    BY <1>1, <1>3, <1>6, <2>1 DEF BrowserTyped
  <2>2. CASE UNCHANGED <<requests, idle>>
    BY <1>1, <1>2, <1>3, <2>2 DEF BrowserTyped
  <2> QED BY <1>2, <2>1, <2>2
<1>8. /\ browsers' \in [SessionIds -> TabRecords] /\ browsers'[s].profile = Public
      /\ browsers'[s].signed = browsers[s].signed
      /\ browsers'[s].pages = browsers[s].pages /\ browsers'[s].active = browsers[s].active
      /\ \A t \in SessionIds \ {s} : browsers'[t] = browsers[t]
      /\ \/ browsers[s].state = "open" /\ browsers'[s].state = "popped" /\ requests'[r].pc = "closing" /\ requests'[r].sid = s
         \/ s \notin Open /\ browsers'[s].state = browsers[s].state /\ requests' = requests
  <2>1. CASE s \in Open /\ browsers' = Moved(s, "popped", Public)
             /\ GoesOn(r, "closing", s, requests[r].todo, requests[r].signed, requests[r].saveAs)
    <3>1. requests'[r].pc = "closing" /\ requests'[r].sid = s
      BY <1>6, <2>1
    <3>2. /\ browsers' \in [SessionIds -> TabRecords] /\ browsers'[s].state = "popped" /\ browsers'[s].profile = Public
          /\ browsers'[s].signed = browsers[s].signed
          /\ browsers'[s].pages = browsers[s].pages /\ browsers'[s].active = browsers[s].active
          /\ \A t \in SessionIds \ {s} : browsers'[t] = browsers[t]
      BY ZenonT(60), <1>1, <1>4, <1>5, <2>1, Moving
    <3> QED BY <2>1, <3>1, <3>2 DEF Open
  <2>2. CASE s \notin Open /\ browsers' = Moved(s, browsers[s].state, Public) /\ UNCHANGED requests
    <3>1. /\ browsers' \in [SessionIds -> TabRecords] /\ browsers'[s].state = browsers[s].state /\ browsers'[s].profile = Public
          /\ browsers'[s].signed = browsers[s].signed
          /\ browsers'[s].pages = browsers[s].pages /\ browsers'[s].active = browsers[s].active
          /\ \A t \in SessionIds \ {s} : browsers'[t] = browsers[t]
      BY ZenonT(120), <1>1, <1>4, <1>5, <2>2, Moving
    <3> QED BY <2>2, <3>1
  <2> QED BY <1>2, <2>1, <2>2
<1>9. \A t \in SessionIds : Alive(t)' <=> Alive(t)
  BY <1>8 DEF Alive
<1>10. BrowserTyped'
  BY <1>1, <1>2, <1>7, <1>8 DEF BrowserTyped
<1>11. CallsTrue'
  BY <1>1, <1>2, <1>3, <1>4, <1>7, <1>8 DEF CallsTrue, InTab
<1>12. TabsTrue'
  <2>1. \A t \in SessionIds : Alive(t)' => browsers'[t].active \in DOMAIN browsers'[t].pages
    BY <1>1, <1>8, <1>9 DEF TabsTrue
  <2>2. \A q \in Profiles : profileSessions'[q] \in Open' => browsers'[profileSessions'[q]].profile = q
    BY <1>1, <1>2, <1>4, <1>8 DEF TabsTrue, Open
  <2>3. \A q \in Profiles : profileSessions'[q] # 0 => browsers'[profileSessions'[q]].state # "unused"
    <3>1. \A t \in SessionIds : browsers'[t].state = "unused" => browsers[t].state = "unused"
      BY <1>8
    <3> QED BY <1>1, <1>2, <3>1, BrowserAssumption DEF TabsTrue, BrowserTyped, SessionIds
  <2>4. \A t \in SessionIds : browsers'[t].state = "popped" =>
          \E o \in Requests : requests'[o].pc \in {"saving", "closing"} /\ requests'[o].sid = t
    BY <1>1, <1>2, <1>7, <1>8 DEF TabsTrue
  <2> QED BY <2>1, <2>2, <2>3, <2>4 DEF TabsTrue
<1>13. \A o \in Requests, t \in SessionIds, q \in Profiles : Claims(o, t, q)' => o # r /\ Claims(o, t, q)
  BY <1>7 DEF Claims
<1>14. ClaimsAgree'
  BY <1>1, <1>4, <1>8, <1>13, BrowserAssumption DEF ClaimsAgree
<1>15. ForgetAlone'
  <2>1. \A o \in Requests : requests'[o].op = requests[o].op /\ requests'[o].alone = requests[o].alone
                         /\ requests'[o].profile = requests[o].profile /\ requests'[o].todo = requests[o].todo
    BY <1>3, <1>7
  <2>2. \A o \in Requests : requests[o].pc = "idle" => requests'[o].pc = "idle"
    BY <1>2, <1>7
  <2>3. \A o \in Requests, t \in SessionIds : requests[o].op = "forget" /\ browsers'[t].profile = requests[o].profile =>
          browsers[t].profile = requests[o].profile
    BY <1>1, <1>8, BrowserAssumption DEF CallsTrue
  <2> QED BY <1>1, <1>9, <2>1, <2>2, <2>3 DEF ForgetAlone
<1>16. StaysOut'
  <2>1. \A t \in SessionIds : browsers'[t].signed = browsers[t].signed /\ (browsers'[t].profile = browsers[t].profile \/ browsers'[t].profile = Public)
    BY <1>8
  <2>2. SignOutFinal'
    BY <1>1, <1>2, <1>9, <2>1, BrowserAssumption DEF StaysOut, SignOutFinal, BrowserTyped
  <2>3. \A o \in Requests : requests'[o].pc \in {"throwaway", "opening"} /\ requests'[o].profile \in signedOut => ~requests'[o].signed
    BY <1>1, <1>7 DEF StaysOut
  <2>4. \A o \in Requests, t \in SessionIds, q \in signedOut : Claims(o, t, q)' /\ Alive(t)' => ~browsers'[t].signed
    BY <1>1, <1>9, <1>13, <2>1 DEF StaysOut, BrowserTyped
  <2> QED BY <1>2, <2>2, <2>3, <2>4 DEF StaysOut
<1>17. ReadsItsOwn'
  BY <1>1, <1>7, <1>8, <1>9 DEF ReadsItsOwn, Tab, CallsTrue, InTab
<1> QED BY <1>10, <1>11, <1>12, <1>14, <1>15, <1>16, <1>17 DEF BrowserInv

LEMMA PortalExpiresKeeps ==
  ASSUME BrowserInv, NEW s \in SessionIds, PortalExpires(s)
  PROVE  BrowserInv'
<1>1. BrowserTyped /\ CallsTrue /\ TabsTrue /\ ClaimsAgree /\ ForgetAlone /\ StaysOut /\ ReadsItsOwn
  BY DEF BrowserInv
<1>2. /\ browsers' = [browsers EXCEPT ![s].signed = FALSE]
      /\ UNCHANGED <<profileSessions, jars, locks, idle, requests, signedOut>>
  BY Zenon DEF PortalExpires
<1>3. browsers' \in [SessionIds -> TabRecords]
  <2>1. [browsers[s] EXCEPT !.signed = FALSE] \in TabRecords
    BY ZenonT(60), <1>1 DEF BrowserTyped, TabRecords
  <2>2. browsers' = [browsers EXCEPT ![s] = [browsers[s] EXCEPT !.signed = FALSE]]
    BY Zenon, <1>2
  <2> QED BY <1>1, <2>1, <2>2 DEF BrowserTyped
<1>4. \A t \in SessionIds :
        /\ browsers'[t].state = browsers[t].state /\ browsers'[t].profile = browsers[t].profile
        /\ browsers'[t].pages = browsers[t].pages /\ browsers'[t].active = browsers[t].active
        /\ browsers'[t].signed => browsers[t].signed
  BY <1>1, <1>2 DEF BrowserTyped, TabRecords
<1>5. \A t \in SessionIds : Alive(t)' <=> Alive(t)
  BY <1>4 DEF Alive
<1>6. BrowserTyped'
  BY <1>1, <1>2, <1>3 DEF BrowserTyped
<1>7. CallsTrue'
  BY <1>1, <1>2, <1>4 DEF CallsTrue, InTab
<1>8. TabsTrue'
  <2>1. \A t \in SessionIds : Alive(t)' => browsers'[t].active \in DOMAIN browsers'[t].pages
    BY <1>1, <1>4, <1>5 DEF TabsTrue
  <2>2. \A q \in Profiles : profileSessions'[q] \in Open' => browsers'[profileSessions'[q]].profile = q
    BY <1>1, <1>2, <1>4 DEF TabsTrue, Open
  <2>3. \A q \in Profiles : profileSessions'[q] # 0 => browsers'[profileSessions'[q]].state # "unused"
    BY <1>1, <1>2, <1>4, BrowserAssumption DEF TabsTrue, BrowserTyped, SessionIds
  <2>4. \A t \in SessionIds : browsers'[t].state = "popped" =>
          \E o \in Requests : requests'[o].pc \in {"saving", "closing"} /\ requests'[o].sid = t
    BY <1>1, <1>2, <1>4 DEF TabsTrue
  <2> QED BY <2>1, <2>2, <2>3, <2>4 DEF TabsTrue
<1>9. \A o \in Requests, t \in SessionIds, q \in Profiles : Claims(o, t, q)' <=> Claims(o, t, q)
  BY <1>2 DEF Claims
<1>10. ClaimsAgree'
  BY <1>1, <1>4, <1>9 DEF ClaimsAgree
<1>11. ForgetAlone'
  BY <1>1, <1>2, <1>4, <1>5 DEF ForgetAlone
<1>12. StaysOut'
  <2>1. SignOutFinal'
    BY <1>1, <1>2, <1>4, <1>5 DEF StaysOut, SignOutFinal
  <2>2. \A o \in Requests, t \in SessionIds, p \in signedOut : Claims(o, t, p)' /\ Alive(t)' => ~browsers'[t].signed
    BY <1>1, <1>4, <1>5, <1>9 DEF StaysOut, BrowserTyped
  <2> QED BY <1>1, <1>2, <2>1, <2>2 DEF StaysOut
<1>13. ReadsItsOwn'
  BY <1>1, <1>2, <1>4, <1>5 DEF ReadsItsOwn, Tab, CallsTrue, InTab
<1> QED BY <1>6, <1>7, <1>8, <1>10, <1>11, <1>12, <1>13 DEF BrowserInv

\* Only the list of idle browsers changes, or nothing does.
LEMMA RestKeeps ==
  ASSUME BrowserInv, UNCHANGED <<browsers, profileSessions, jars, locks, requests, signedOut>>, idle' \subseteq SessionIds
  PROVE  BrowserInv'
<1>1. \A s \in SessionIds : Alive(s)' <=> Alive(s)
  BY DEF Alive
<1>2. Open' = Open
  BY DEF Open
<1>3. BrowserTyped' /\ CallsTrue' /\ ForgetAlone' /\ ReadsItsOwn'
  BY <1>1 DEF BrowserInv, BrowserTyped, CallsTrue, ForgetAlone, ReadsItsOwn, Tab, InTab, Alive
<1>4. TabsTrue'
  BY <1>1, <1>2 DEF BrowserInv, TabsTrue
<1>5. \A o \in Requests, t \in SessionIds, q \in Profiles : Claims(o, t, q)' <=> Claims(o, t, q)
  BY DEF Claims
<1>6. ClaimsAgree'
  BY <1>5 DEF BrowserInv, ClaimsAgree
<1>7. StaysOut'
  BY <1>1, <1>5 DEF BrowserInv, BrowserTyped, StaysOut, SignOutFinal
<1> QED BY <1>3, <1>4, <1>6, <1>7 DEF BrowserInv

\* When the container dies nobody is in a tab any more; a sign-out stays one.
LEMMA ContainerDiesKeeps ==
  ASSUME BrowserInv, ContainerDies
  PROVE  BrowserInv'
<1>1. BrowserTyped /\ StaysOut
  BY DEF BrowserInv
<1>2. /\ browsers' = [s \in SessionIds |-> IF browsers[s].state = "unused" THEN Unused ELSE [Unused EXCEPT !.state = "closed"]]
      /\ profileSessions' = [p \in Profiles |-> 0] /\ locks' = [s \in SessionIds |-> Nobody] /\ idle' = {}
      /\ requests' = [r \in Requests |-> AtRest] /\ UNCHANGED <<jars, signedOut>>
  BY Zenon DEF ContainerDies
<1>3. /\ browsers' \in [SessionIds -> TabRecords] /\ \A s \in SessionIds : ~Alive(s)'
  <2>1. Unused \in TabRecords /\ [Unused EXCEPT !.state = "closed"] \in TabRecords
    <3>1. Unused \in TabRecords
      BY DEF Unused, TabRecords, Portals
    <3> QED BY <3>1 DEF TabRecords
  <2>2. Unused.state = "unused" /\ [Unused EXCEPT !.state = "closed"].state = "closed"
    BY DEF Unused
  <2> QED BY <1>2, <2>1, <2>2 DEF Alive
<1>4. AtRest \in CallRecords /\ AtRest.pc = "idle" /\ AtRest.op = "none"
  BY BrowserAssumption DEF AtRest, CallRecords, Stages, Portals
<1>5. BrowserTyped'
  BY SMTT(60), <1>1, <1>2, <1>3, <1>4, BrowserAssumption DEF BrowserTyped
<1>6. \A r \in Requests : requests'[r].pc = "idle" /\ requests'[r].op = "none"
  BY <1>2, <1>4
<1>7. CallsTrue' /\ ForgetAlone' /\ ReadsItsOwn'
  BY <1>6 DEF CallsTrue, ForgetAlone, ReadsItsOwn, InTab
<1>8. TabsTrue'
  BY <1>2, <1>3, BrowserAssumption DEF TabsTrue, Open, Alive, SessionIds
<1>9. \A o \in Requests, t \in SessionIds, q \in Profiles : ~Claims(o, t, q)'
  BY <1>6 DEF Claims
<1>10. ClaimsAgree' /\ StaysOut'
  BY <1>1, <1>2, <1>3, <1>6, <1>9 DEF ClaimsAgree, StaysOut, SignOutFinal, BrowserTyped
<1> QED BY <1>5, <1>7, <1>8, <1>10 DEF BrowserInv

\* Every step of the desk.
LEMMA BrowserStep ==
  ASSUME BrowserInv, [BrowserNext]_browserVars
  PROVE  BrowserInv'
<1>1. idle \subseteq SessionIds /\ Open \subseteq SessionIds
  BY DEF BrowserInv, BrowserTyped, Open
<1>2. CASE UNCHANGED browserVars
  BY <1>1, <1>2, RestKeeps DEF browserVars
<1>3. CASE \E s \in SessionIds : PortalExpires(s)
  BY <1>3, PortalExpiresKeeps
<1>4. CASE TimePasses
  BY <1>1, <1>4, RestKeeps DEF TimePasses
<1>5. CASE ContainerDies
  BY <1>5, ContainerDiesKeeps
<1>6. ASSUME NEW r \in Requests, \E p \in Profiles \cup {Public} : Read(r, p) \/ \E s \in Open \cup {0} : Act(r, p, s)
      PROVE  BrowserInv'
  BY <1>6, ReadKeeps, ActKeeps DEF Portals
<1>7. ASSUME NEW r \in Requests, \E p \in Profiles : Login(r, p) \/ Forget(r, p) PROVE BrowserInv'
  BY <1>7, LoginKeeps, ForgetKeeps
<1>8. ASSUME NEW r \in Requests, \E s \in SessionIds : CloseProfile(r, s) PROVE BrowserInv'
  BY <1>8, CloseProfileKeeps
<1>9. ASSUME NEW r \in Requests, ReadsApart(r) \/ SavesOut(r) \/ ClosesOut(r) \/ Reaps(r) \/ Finds(r) \/ Opens(r)
      PROVE  BrowserInv'
  BY <1>9, ReadsApartKeeps, SavesOutKeeps, ClosesOutKeeps, ReapsKeeps, FindsKeeps, OpensKeeps
<1>10. ASSUME NEW r \in Requests, Takes(r) \/ Visits(r) \/ Shows(r) \/ Breaks(r) \/ Steps(r)
       PROVE  BrowserInv'
  BY <1>10, TakesKeeps, VisitsKeeps, ShowsKeeps, BreaksKeeps, StepsKeeps
<1>11. ASSUME NEW r \in Requests, \/ \E close \in BOOLEAN : ActEnds(r, close)
                                  \/ LoginOk(r) \/ LoginFails(r) \/ ForgetsTab(r) \/ ForgetsJar(r)
       PROVE  BrowserInv'
  BY <1>11, ActEndsKeeps, LoginOkKeeps, LoginFailsKeeps, ForgetsTabKeeps, ForgetsJarKeeps
<1> QED BY Zenon, <1>2, <1>3, <1>4, <1>5, <1>6, <1>7, <1>8, <1>9, <1>10, <1>11 DEF BrowserNext

LEMMA BrowserStart == BrowserInit => BrowserInv
<1> SUFFICES ASSUME BrowserInit PROVE BrowserInv
  OBVIOUS
<1>1. /\ Unused \in TabRecords /\ Unused.state = "unused"
      /\ AtRest \in CallRecords /\ AtRest.pc = "idle" /\ AtRest.op = "none"
  BY BrowserAssumption DEF Unused, AtRest, TabRecords, CallRecords, Stages, Portals
<1>2. /\ \A s \in SessionIds : browsers[s] = Unused
      /\ \A r \in Requests : requests[r] = AtRest
      /\ \A p \in Profiles : profileSessions[p] = 0
  BY DEF BrowserInit
<1>3. BrowserTyped
  BY <1>1, BrowserAssumption DEF BrowserInit, BrowserTyped
<1>4. CallsTrue /\ ForgetAlone /\ ReadsItsOwn
  BY <1>1, <1>2 DEF CallsTrue, ForgetAlone, ReadsItsOwn, InTab
<1>5. TabsTrue
  BY <1>1, <1>2, BrowserAssumption DEF TabsTrue, Open, Alive, SessionIds
<1>6. \A o \in Requests, t \in SessionIds, q \in Profiles : ~Claims(o, t, q)
  BY <1>1, <1>2 DEF Claims
<1>7. ClaimsAgree /\ StaysOut
  BY <1>6 DEF ClaimsAgree, StaysOut, SignOutFinal, BrowserInit
<1> QED BY <1>3, <1>4, <1>5, <1>7 DEF BrowserInv

\* For any portals, requests and tabs (server.py): a request in a tab has one, drives it
\* only under its lock, no tab is claimed for two portals, and after a sign-out that ran
\* alone nothing under way carries the sign-in.
THEOREM BrowserShape == BrowserSpec => []BrowserInv
<1>1. BrowserInit => BrowserInv
  BY BrowserStart
<1>2. BrowserInv /\ [BrowserNext]_browserVars => BrowserInv'
  BY BrowserStep
<1> QED BY <1>1, <1>2, PTL DEF BrowserSpec

\* What the invariant says of the promises.
LEMMA BrowserGood == ASSUME BrowserInv PROVE BrowserSound
<1>1. SignOutFinal /\ ReadsItsOwn
  BY DEF BrowserInv, StaysOut
<1>2. \A p \in Profiles : Live(p) # 0 => browsers[Live(p)].profile = p
  BY LiveTab DEF BrowserInv, Portals
<1>3. \A s \in Open : browsers[s].active \in DOMAIN browsers[s].pages
  BY DEF BrowserInv, TabsTrue, Open, Alive
<1> QED BY <1>1, <1>2, <1>3 DEF BrowserSound, TabsBelong

\* Through any overlap of reads, flows, logins, reaping, sign-outs and deaths of the
\* container: a sign-out stays one, a read returns the page it asked for, and a portal's
\* tab is the portal's (server.py).
THEOREM BrowserHolds == BrowserSpec => []BrowserSound
  BY BrowserGood, BrowserShape, PTL

-----------------------------------------------------------------------------
(* Lemmas about sequences and numbers. *)

\* A set of numbers has a least one.
LEMMA LeastNumber ==
  ASSUME NEW T \in SUBSET Nat, T # {} PROVE \E x \in T : \A y \in T : x =< y
<1>2. PICK x \in T : \A y \in T : ~(<<y, x>> \in OpToRel(<, Nat))
  BY ZenonT(60), NatLessThanWellFounded, WFMin
<1>3. \A y \in T : y \in Nat /\ x \in Nat /\ ~(y < x)
  BY <1>2 DEF OpToRel
<1>4. \A y \in T : x =< y
  BY <1>3
<1> QED BY ZenonT(60), <1>2, <1>4

\* What holds of 0 and goes on from each number to the next holds of all.
LEMMA Counting ==
  ASSUME NEW S, 0 \in S, \A n \in Nat : n \in S => n + 1 \in S PROVE Nat \subseteq S
<1> SUFFICES ASSUME Nat \ S # {} PROVE FALSE
  OBVIOUS
<1>1. PICK x \in Nat \ S : \A y \in Nat \ S : x =< y
  BY LeastNumber
<1>2. x # 0 /\ x - 1 \in Nat /\ x = (x - 1) + 1
  BY <1>1
<1>3. x - 1 \in S
  BY <1>1, <1>2
<1> QED BY <1>1, <1>2, <1>3

\* What two sequences hold together.
LEMMA Joined ==
  ASSUME NEW T, NEW a \in Seq(T), NEW b \in Seq(T)
  PROVE  a \o b \in Seq(T) /\ ToSet(a \o b) = ToSet(a) \cup ToSet(b)
<1>1. a \o b \in Seq(T) /\ Len(a \o b) = Len(a) + Len(b)
  OBVIOUS
<1>2. \A i \in 1 .. Len(a) : (a \o b)[i] = a[i]
  OBVIOUS
<1>3. \A i \in 1 .. Len(b) : (a \o b)[Len(a) + i] = b[i]
  OBVIOUS
<1>4. DOMAIN (a \o b) = 1 .. Len(a) + Len(b) /\ DOMAIN a = 1 .. Len(a) /\ DOMAIN b = 1 .. Len(b)
  OBVIOUS
<1>5. ToSet(a \o b) \subseteq ToSet(a) \cup ToSet(b)
  <2> SUFFICES ASSUME NEW i \in 1 .. Len(a) + Len(b) PROVE (a \o b)[i] \in ToSet(a) \cup ToSet(b)
    BY <1>4 DEF ToSet
  <2>1. CASE i \in 1 .. Len(a)
    BY <1>2, <1>4, <2>1 DEF ToSet
  <2>2. CASE i \notin 1 .. Len(a)
    <3>1. i - Len(a) \in 1 .. Len(b) /\ Len(a) + (i - Len(a)) = i
      BY <2>2
    <3>2. (a \o b)[i] = b[i - Len(a)]
      BY <1>3, <3>1
    <3> QED BY <1>4, <3>1, <3>2 DEF ToSet
  <2> QED BY <2>1, <2>2
<1>6. ToSet(a) \subseteq ToSet(a \o b)
  BY <1>2, <1>4 DEF ToSet
<1>7. ToSet(b) \subseteq ToSet(a \o b)
  <2>1. \A i \in 1 .. Len(b) : Len(a) + i \in 1 .. Len(a) + Len(b)
    OBVIOUS
  <2> QED BY <1>3, <1>4, <2>1 DEF ToSet
<1> QED BY <1>1, <1>5, <1>6, <1>7

\* The rows of a list of lists are the rows of its lists.
LEMMA Flattened ==
  ASSUME NEW T, NEW ss \in Seq(Seq(T)), ss # <<>>
  PROVE  FlattenSeq(ss) \in Seq(T) /\ \A x : x \in ToSet(FlattenSeq(ss)) <=> \E g \in DOMAIN ss : x \in ToSet(ss[g])
<1> DEFINE flatten[i \in 1 .. Len(ss)] == IF i = 1 THEN ss[i] ELSE flatten[i - 1] \o ss[i]
           IsIt(f, m) == f = [i \in 1 .. m |-> IF i = 1 THEN ss[i] ELSE f[i - 1] \o ss[i]]
<1>0. Len(ss) \in Nat \ {0} /\ DOMAIN ss = 1 .. Len(ss)
  OBVIOUS
<1>1. FlattenSeq(ss) = flatten[Len(ss)]
  <2>1. Len(ss) # 0
    BY <1>0
  <2> QED BY Zenon, <2>1 DEF FlattenSeq
<1>2. flatten = CHOOSE f : IsIt(f, Len(ss))
  OBVIOUS
<1> HIDE DEF flatten
<1>3. \A m \in Nat : \E f : IsIt(f, m)
  <2> DEFINE S == {m \in Nat : \E f : IsIt(f, m)}
  <2>1. 0 \in S
    <3>1. IsIt([i \in 1 .. 0 |-> 0], 0)
      OBVIOUS
    <3> QED BY <3>1
  <2>2. \A m \in Nat : m \in S => m + 1 \in S
    <3> SUFFICES ASSUME NEW m \in Nat, m \in S PROVE m + 1 \in S
      OBVIOUS
    <3>0. PICK f : IsIt(f, m)
      OBVIOUS
    <3> DEFINE h == [i \in 1 .. m + 1 |-> IF i \in 1 .. m THEN f[i] ELSE IF i = 1 THEN ss[i] ELSE f[i - 1] \o ss[i]]
    <3>1. \A i \in 1 .. m + 1 : h[i] = IF i = 1 THEN ss[i] ELSE h[i - 1] \o ss[i]
      <4> TAKE i \in 1 .. m + 1
      <4>1. CASE i = 1
        BY <3>0, <4>1
      <4>2. CASE i # 1
        <5>1. i - 1 \in 1 .. m /\ h[i - 1] = f[i - 1]
          BY SMTT(60), <4>2
        <5>2. h[i] = f[i - 1] \o ss[i]
          BY ZenonT(60), <3>0, <4>2, <5>1
        <5> QED BY <4>2, <5>1, <5>2
      <4> QED BY <4>1, <4>2
    <3>2. IsIt(h, m + 1)
      BY ZenonT(60), <3>1
    <3>3. \E k : IsIt(k, m + 1)
      BY Zenon, <3>2
    <3>4. m + 1 \in Nat
      OBVIOUS
    <3> QED BY Zenon, <3>3, <3>4
  <2> HIDE DEF S
  <2>3. Nat \subseteq S
    BY <2>1, <2>2, Counting
  <2> QED BY <2>3 DEF S
<1>4. flatten = [i \in 1 .. Len(ss) |-> IF i = 1 THEN ss[i] ELSE flatten[i - 1] \o ss[i]]
  <2>1. IsIt(flatten, Len(ss))
    BY ZenonT(60), <1>0, <1>2, <1>3
  <2> QED BY ZenonT(60), <2>1
<1>5. \A i \in 1 .. Len(ss) : flatten[i] = IF i = 1 THEN ss[i] ELSE flatten[i - 1] \o ss[i]
  BY <1>4
<1> DEFINE Good(m) == m \in 1 .. Len(ss) => flatten[m] \in Seq(T) /\ \A x : x \in ToSet(flatten[m]) <=> \E g \in 1 .. m : x \in ToSet(ss[g])
           R == {m \in Nat : Good(m)}
<1>6. 0 \in R
  OBVIOUS
<1>7. \A m \in Nat : m \in R => m + 1 \in R
  <2> SUFFICES ASSUME NEW m \in Nat, Good(m), m + 1 \in 1 .. Len(ss) PROVE Good(m + 1)
    <3>1. \A k \in Nat : k \in R <=> Good(k)
      BY Zenon
    <3> HIDE DEF R
    <3>2. \A k \in Nat : k + 1 \in Nat
      OBVIOUS
    <3> QED BY <3>1, <3>2
  <2>1. ss[m + 1] \in Seq(T)
    BY <1>0
  <2>2. CASE m = 0
    BY <1>5, <2>1, <2>2
  <2>3. CASE m # 0
    <3>1. m \in 1 .. Len(ss) /\ flatten[m + 1] = flatten[m] \o ss[m + 1]
      <4>1. m + 1 # 1 /\ (m + 1) - 1 = m /\ m \in 1 .. Len(ss)
        BY <1>0, <2>3
      <4> QED BY <1>5, <4>1
    <3>2. flatten[m] \in Seq(T) /\ \A x : x \in ToSet(flatten[m]) <=> \E g \in 1 .. m : x \in ToSet(ss[g])
      BY <3>1
    <3>3. /\ flatten[m + 1] \in Seq(T)
          /\ ToSet(flatten[m + 1]) = ToSet(flatten[m]) \cup ToSet(ss[m + 1])
      BY <2>1, <3>1, <3>2, Joined
    <3>4. \A g : g \in 1 .. m + 1 <=> g \in 1 .. m \/ g = m + 1
      OBVIOUS
    <3>5. \A x : x \in ToSet(flatten[m + 1]) <=> \E g \in 1 .. m + 1 : x \in ToSet(ss[g])
      BY Zenon, <3>2, <3>3, <3>4
    <3> QED BY Zenon, <3>3, <3>5
  <2> QED BY <2>2, <2>3
<1> HIDE DEF R
<1>8. Nat \subseteq R
  BY <1>6, <1>7, Counting
<1>9. Good(Len(ss))
  BY <1>0, <1>8 DEF R
<1>10. Len(ss) \in 1 .. Len(ss) /\ DOMAIN ss = 1 .. Len(ss)
  BY <1>0
<1> QED BY Zenon, <1>1, <1>9, <1>10

-----------------------------------------------------------------------------
(* The picker of the terminal. *)

RowType == [option : BOOLEAN, letters : SUBSET Letters]
GroupType == [options : Seq(SUBSET Letters), note : BOOLEAN]

LEMMA LeastOf ==
  ASSUME NEW T \in SUBSET Nat, T # {} PROVE Min(T) \in T
<1>1. \E x \in T : \A y \in T : x =< y
  BY LeastNumber
<1> QED BY Zenon, <1>1 DEF Min

LEMMA Lone ==
  ASSUME NEW x PROVE \A y : y \in ToSet(<<x>>) <=> y = x
<1> DEFINE s == <<x>>
<1>1. DOMAIN s = {1} /\ s[1] = x
  OBVIOUS
<1> HIDE DEF s
<1>2. \A y : y \in ToSet(s) <=> y = x
  BY <1>1 DEF ToSet
<1> QED BY <1>2 DEF s

\* The rows of a group that a query leaves: its options that match.
LEMMA HitsAre ==
  ASSUME NEW group \in GroupType, NEW query
  PROVE  /\ HitRows(group, query) \in Seq(RowType)
         /\ \A x : x \in ToSet(HitRows(group, query)) <=>
              \E k \in DOMAIN group.options :
                Matches(group.options[k], query) /\ x = [option |-> TRUE, letters |-> group.options[k]]
<1> DEFINE ss == [k \in DOMAIN group.options |->
             IF Matches(group.options[k], query) THEN <<[option |-> TRUE, letters |-> group.options[k]]>> ELSE <<>>]
           n == Len(group.options)
<1>1. n \in Nat /\ DOMAIN group.options = 1 .. n /\ \A k \in 1 .. n : group.options[k] \in SUBSET Letters
  BY DEF GroupType
<1>2. \A k \in 1 .. n : [option |-> TRUE, letters |-> group.options[k]] \in RowType
  BY <1>1 DEF RowType
<1>3. ss \in Seq(Seq(RowType)) /\ Len(ss) = n /\ DOMAIN ss = 1 .. n
  BY <1>1, <1>2
<1>4. \A k \in 1 .. n : \A x : x \in ToSet(ss[k]) <=>
        Matches(group.options[k], query) /\ x = [option |-> TRUE, letters |-> group.options[k]]
  <2> TAKE k \in 1 .. n
  <2> TAKE x
  <2>1. CASE Matches(group.options[k], query)
    <3>1. ss[k] = <<[option |-> TRUE, letters |-> group.options[k]]>>
      BY <1>1, <2>1
    <3> QED BY Zenon, <2>1, <3>1, Lone
  <2>2. CASE ~Matches(group.options[k], query)
    <3>1. ss[k] = <<>>
      BY <1>1, <2>2
    <3> QED BY <2>2, <3>1 DEF ToSet
  <2> QED BY <2>1, <2>2
<1>5. HitRows(group, query) = FlattenSeq(ss)
  BY Zenon DEF HitRows
<1> HIDE DEF ss, n
<1>6. CASE ss = <<>>
  <2>1. FlattenSeq(ss) = <<>>
    BY <1>6 DEF FlattenSeq
  <2>2. n = 0
    BY <1>3, <1>6
  <2> QED BY <1>1, <1>5, <2>1, <2>2 DEF ToSet
<1>7. CASE ss # <<>>
  <2>1. FlattenSeq(ss) \in Seq(RowType) /\ \A x : x \in ToSet(FlattenSeq(ss)) <=> \E g \in DOMAIN ss : x \in ToSet(ss[g])
    BY <1>3, <1>7, Flattened
  <2> QED BY Zenon, <1>1, <1>3, <1>4, <1>5, <2>1
<1> QED BY <1>6, <1>7

\* The picker has something to choose when some option matches the query.
LEMMA RowsAre ==
  ASSUME NEW query
  PROVE  /\ Rows(query) \in Seq(RowType)
         /\ (\E x \in ToSet(Rows(query)) : x.option) <=>
              \E g \in DOMAIN Groups : \E k \in DOMAIN Groups[g].options : Matches(Groups[g].options[k], query)
<1> DEFINE ss == [g \in DOMAIN Groups |-> RowsOf(Groups[g], query)]
           n == Len(Groups)
<1>1. n \in Nat /\ DOMAIN Groups = 1 .. n /\ \A g \in 1 .. n : Groups[g] \in GroupType
  <2>1. Groups \in Seq(GroupType)
    BY Zenon, TerminalAssumption DEF GroupType
  <2> HIDE DEF ss
  <2> QED BY <2>1
<1>2. HeaderRow \in RowType /\ ~HeaderRow.option
  BY DEF HeaderRow, RowType
<1>3. \A group \in GroupType :
        /\ RowsOf(group, query) \in Seq(RowType)
        /\ (\E x \in ToSet(RowsOf(group, query)) : x.option) <=> \E k \in DOMAIN group.options : Matches(group.options[k], query)
  <2> TAKE group \in GroupType
  <2> DEFINE hits == HitRows(group, query)
             note == IF group.note /\ hits = <<>> THEN <<HeaderRow>> ELSE <<>>
  <2>1. /\ hits \in Seq(RowType)
        /\ \A x : x \in ToSet(hits) <=>
             \E k \in DOMAIN group.options :
               Matches(group.options[k], query) /\ x = [option |-> TRUE, letters |-> group.options[k]]
    BY HitsAre
  <2>2. (\E x \in ToSet(hits) : x.option) <=> \E k \in DOMAIN group.options : Matches(group.options[k], query)
    <3> HIDE DEF hits
    <3>1. ASSUME NEW x \in ToSet(hits) PROVE \E k \in DOMAIN group.options : Matches(group.options[k], query)
      BY Zenon, <2>1
    <3>2. ASSUME NEW k \in DOMAIN group.options, Matches(group.options[k], query) PROVE \E x \in ToSet(hits) : x.option
      <4>1. [option |-> TRUE, letters |-> group.options[k]].option
        OBVIOUS
      <4> QED BY Zenon, <2>1, <3>2, <4>1
    <3> QED BY Zenon, <3>1, <3>2
  <2>3. note \in Seq(RowType) /\ \A x \in ToSet(note) : ~x.option
    <3>1. CASE note = <<>>
      BY <3>1 DEF ToSet
    <3>2. CASE note = <<HeaderRow>>
      BY <1>2, <3>2, Lone
    <3> QED BY <3>1, <3>2
  <2>4. <<HeaderRow>> \in Seq(RowType) /\ \A x \in ToSet(<<HeaderRow>>) : ~x.option
    BY <1>2, Lone
  <2>5. RowsOf(group, query) = (IF hits = <<>> /\ ~(group.note /\ query = <<>>) THEN <<>> ELSE <<HeaderRow>> \o note \o hits)
    BY Zenon DEF RowsOf
  <2> HIDE DEF hits, note
  <2>6. CASE RowsOf(group, query) = <<>>  /\ hits = <<>>
    BY <2>1, <2>2, <2>6
  <2>7. CASE RowsOf(group, query) = <<HeaderRow>> \o note \o hits
    <3>1. <<HeaderRow>> \o note \in Seq(RowType) /\ ToSet(<<HeaderRow>> \o note) = ToSet(<<HeaderRow>>) \cup ToSet(note)
      BY ZenonT(60), <2>3, <2>4, Joined
    <3> DEFINE front == <<HeaderRow>> \o note
    <3>2. front \o hits \in Seq(RowType) /\ ToSet(front \o hits) = ToSet(front) \cup ToSet(hits)
      <4>1. front \in Seq(RowType) /\ hits \in Seq(RowType)
        BY <2>1, <3>1
      <4> HIDE DEF front
      <4> QED BY <4>1, Joined
    <3>3. RowsOf(group, query) = front \o hits /\ ToSet(front) = ToSet(<<HeaderRow>>) \cup ToSet(note)
      BY <2>7, <3>1
    <3> HIDE DEF front
    <3> QED BY Zenon, <2>2, <2>3, <2>4, <3>2, <3>3
  <2> QED BY <2>5, <2>6, <2>7
<1>4. Rows(query) = FlattenSeq(ss)
  BY Zenon DEF Rows
<1>5. ss \in Seq(Seq(RowType)) /\ DOMAIN ss = 1 .. n /\ \A g \in 1 .. n : ss[g] = RowsOf(Groups[g], query)
  <2>1. DOMAIN ss = 1 .. n /\ \A g \in 1 .. n : ss[g] = RowsOf(Groups[g], query)
    BY <1>1
  <2>2. ss = [g \in 1 .. n |-> ss[g]]
    BY <1>1
  <2> QED BY <1>1, <1>3, <2>1, <2>2
<1> HIDE DEF ss, n
<1>6. CASE ss = <<>>
  <2>1. FlattenSeq(ss) = <<>>
    BY <1>6 DEF FlattenSeq
  <2>2. 1 .. n = {}
    BY <1>5, <1>6
  <2> QED BY <1>1, <1>4, <2>1, <2>2 DEF ToSet
<1>7. CASE ss # <<>>
  <2>1. FlattenSeq(ss) \in Seq(RowType) /\ \A x : x \in ToSet(FlattenSeq(ss)) <=> \E g \in DOMAIN ss : x \in ToSet(ss[g])
    BY <1>5, <1>7, Flattened
  <2>2. \A g \in 1 .. n : (\E x \in ToSet(ss[g]) : x.option) <=> \E k \in DOMAIN Groups[g].options : Matches(Groups[g].options[k], query)
    BY Zenon, <1>1, <1>3, <1>5
  <2>3. (\E x \in ToSet(Rows(query)) : x.option) <=> \E g \in 1 .. n : \E x \in ToSet(ss[g]) : x.option
    BY Zenon, <1>4, <1>5, <2>1
  <2>4. (\E x \in ToSet(Rows(query)) : x.option) <=>
          \E g \in 1 .. n : \E k \in DOMAIN Groups[g].options : Matches(Groups[g].options[k], query)
    BY Zenon, <2>2, <2>3
  <2> QED BY Zenon, <1>1, <1>4, <2>1, <2>4
<1> QED BY <1>6, <1>7

\* A list of rows has an option to choose exactly when some option matches.
LEMMA OptionsAre ==
  ASSUME NEW query
  PROVE  /\ Rows(query) \in Seq(RowType) /\ OptionRows(Rows(query)) \in SUBSET Nat
         /\ OptionRows(Rows(query)) # {} <=>
              \E g \in DOMAIN Groups : \E k \in DOMAIN Groups[g].options : Matches(Groups[g].options[k], query)
<1> DEFINE rows == Rows(query)
<1>1. rows \in Seq(RowType) /\ ((\E x \in ToSet(rows) : x.option) <=>
              \E g \in DOMAIN Groups : \E k \in DOMAIN Groups[g].options : Matches(Groups[g].options[k], query))
  BY RowsAre
<1> HIDE DEF rows
<1>2. OptionRows(rows) \in SUBSET Nat
  BY <1>1 DEF OptionRows
<1>3. OptionRows(rows) # {} <=> \E x \in ToSet(rows) : x.option
  BY <1>1 DEF OptionRows, ToSet
<1> QED BY <1>1, <1>2, <1>3 DEF rows

LEMMA FirstIsOption ==
  ASSUME NEW query, FirstOption(Rows(query)) # 0 \/ OptionRows(Rows(query)) # {}
  PROVE  FirstOption(Rows(query)) \in OptionRows(Rows(query))
<1>1. OptionRows(Rows(query)) # {}
  BY DEF FirstOption
<1> QED BY Zenon, <1>1, OptionsAre, LeastOf DEF FirstOption

\* The least and the greatest of two numbers.
LEMMA Extremes ==
  ASSUME NEW a \in Int, NEW b \in Int
  PROVE  /\ Min({a, b}) = (IF a =< b THEN a ELSE b)
         /\ Max({a, b}) = (IF a =< b THEN b ELSE a)
<1>1. \A x \in {a, b} : (\A y \in {a, b} : x =< y) <=> x = (IF a =< b THEN a ELSE b)
  OBVIOUS
<1>2. \A x \in {a, b} : (\A y \in {a, b} : x >= y) <=> x = (IF a =< b THEN b ELSE a)
  OBVIOUS
<1>3. Min({a, b}) = (IF a =< b THEN a ELSE b)
  BY <1>1 DEF Min
<1>4. Max({a, b}) = (IF a =< b THEN b ELSE a)
  BY <1>2 DEF Max
<1> QED BY <1>3, <1>4

\* What the cursor is on is on the screen.
LEMMA OnScreen ==
  ASSUME NEW rows \in Seq(RowType), NEW cursor \in OptionRows(rows)
  PROVE  cursor \in Window(rows, cursor)
<1> DEFINE n == Len(rows)
           h == WindowHeight \div 2
           start == WindowStart(rows, cursor)
<1>1. n \in Nat /\ cursor \in 1 .. n
  BY DEF OptionRows
<1>2. WindowHeight \in Nat \ {0} /\ h \in Nat /\ h < WindowHeight
  BY TerminalAssumption
<1>3. start \in Nat /\ start =< cursor - 1 /\ cursor =< start + WindowHeight
  <2>1. CASE n =< WindowHeight
    <3>1. start = 0
      BY <2>1 DEF WindowStart
    <3> HIDE DEF start, n, h
    <3> QED BY <1>1, <1>2, <2>1, <3>1
  <2>2. CASE ~(n =< WindowHeight)
    <3> DEFINE a == cursor - 1 - h
               b == n - WindowHeight
               m == Min({a, b})
    <3>1. a \in Int /\ b \in Int /\ b >= 0
      BY <1>1, <1>2, <2>2
    <3>2. start = Max({0, m})
      BY <2>2 DEF WindowStart
    <3> HIDE DEF start
    <3>3. m = (IF a =< b THEN a ELSE b)
      <4> HIDE DEF a, b
      <4> QED BY <3>1, Extremes
    <3>4. m \in Int
      BY <3>1, <3>3
    <3>5. Max({0, m}) = (IF 0 =< m THEN m ELSE 0)
      <4> HIDE DEF m
      <4> QED BY SMTT(60), <3>4, Extremes
    <3> HIDE DEF m, h, n
    <3> QED BY <1>1, <1>2, <3>1, <3>2, <3>3, <3>5
  <2> QED BY <2>1, <2>2
<1> HIDE DEF start
<1>4. Min({n, start + WindowHeight}) \in Int /\ cursor =< Min({n, start + WindowHeight})
  <2>1. n \in Int /\ start + WindowHeight \in Int
    BY <1>1, <1>2, <1>3
  <2> QED BY <1>1, <1>2, <1>3, <2>1, Extremes
<1> QED BY <1>1, <1>3, <1>4 DEF Window, start

\* The cursor moves to an option, or stays where it is.
LEMMA StepsToOption ==
  ASSUME NEW rows \in Seq(RowType), NEW cursor \in OptionRows(rows), NEW delta \in {-1, 1}
  PROVE  Step(rows, cursor, delta) \in OptionRows(rows)
<1> DEFINE reached(k) == ((cursor - 1 + k * delta + k * Len(rows)) % Len(rows)) + 1
           steps == {k \in 1 .. Len(rows) : rows[reached(k)].option}
<1>1. Step(rows, cursor, delta) = IF steps = {} THEN cursor ELSE reached(Min(steps))
  BY DEF Step
<1>2. Len(rows) \in Nat \ {0} /\ cursor \in Nat /\ DOMAIN rows = 1 .. Len(rows)
  BY DEF OptionRows
<1>3. \A k \in Nat : reached(k) \in 1 .. Len(rows)
  <2> TAKE k \in Nat
  <2>1. cursor - 1 + k * delta + k * Len(rows) \in Int
    BY <1>2
  <2> QED BY <1>2, <2>1
<1> HIDE DEF reached
<1>4. steps \in SUBSET Nat
  OBVIOUS
<1>5. CASE steps = {}
  BY <1>1, <1>5
<1>6. CASE steps # {}
  <2>1. Min(steps) \in steps
    BY <1>4, <1>6, LeastOf
  <2>2. reached(Min(steps)) \in OptionRows(rows)
    BY <1>2, <1>3, <2>1 DEF OptionRows
  <2> QED BY <1>1, <1>6, <2>2
<1> QED BY <1>5, <1>6

-----------------------------------------------------------------------------
PickerInv ==
  /\ picker \in [stage : {"open", "closed"}, query : Seq(Letters), cursor : Nat]
  /\ picker.stage = "open" => picker.cursor \in OptionRows(Rows(picker.query))

LEMMA PickerSteps ==
  ASSUME PickerInv, PickerNext \/ UNCHANGED picker PROVE PickerInv'
<1> DEFINE Fine(q, c) == q \in Seq(Letters) /\ c \in OptionRows(Rows(q))
           NowAt(q, c) == picker' = [stage |-> "open", query |-> q, cursor |-> c]
<1>1. ASSUME NEW q, NEW c, Fine(q, c), NowAt(q, c) PROVE PickerInv'
  <2>1. c \in Nat
    BY <1>1, OptionsAre
  <2>2. picker'.stage = "open" /\ picker'.query = q /\ picker'.cursor = c
    BY <1>1
  <2>3. picker' \in [stage : {"open", "closed"}, query : Seq(Letters), cursor : Nat]
    BY <1>1, <2>1
  <2> QED BY Zenon, <1>1, <2>2, <2>3 DEF PickerInv, Rows, OptionRows
<1> HIDE DEF Fine
<1>2. CASE OpenPicker
  <2>1. PICK c \in OptionRows(Rows(<<>>)) : NowAt(<<>>, c)
    BY <1>2 DEF OpenPicker
  <2>2. Fine(<<>>, c)
    BY DEF Fine
  <2> QED BY Zenon, <1>1, <2>1, <2>2
<1>3. ASSUME NEW l \in Letters, TypeLetter(l) PROVE PickerInv'
  <2> DEFINE q == Append(picker.query, l)
  <2>1. q \in Seq(Letters) /\ FirstOption(Rows(q)) # 0 /\ NowAt(q, FirstOption(Rows(q)))
    <3>1. picker.stage = "open" /\ picker.query \in Seq(Letters) /\ FirstOption(Rows(q)) # 0
      BY <1>3 DEF TypeLetter, PickerInv
    <3>2. picker' = [picker EXCEPT !.query = q, !.cursor = FirstOption(Rows(q))]
      BY <1>3 DEF TypeLetter
    <3>3. q \in Seq(Letters)
      BY <3>1
    <3> HIDE DEF q
    <3>4. picker \in [stage : {"open", "closed"}, query : Seq(Letters), cursor : Nat]
      BY DEF PickerInv
    <3>5. NowAt(q, FirstOption(Rows(q)))
      BY <3>1, <3>2, <3>4
    <3> QED BY <3>1, <3>3, <3>5
  <2> HIDE DEF q
  <2>2. Fine(q, FirstOption(Rows(q)))
    BY Zenon, <2>1, FirstIsOption DEF Fine
  <2> QED BY Zenon, <1>1, <2>1, <2>2
<1>4. CASE EraseLetter
  <2> DEFINE q == Front(picker.query)
  <2>1. picker.query \in Seq(Letters) /\ picker.query # <<>> /\ picker.cursor \in OptionRows(Rows(picker.query))
    BY <1>4 DEF EraseLetter, PickerInv
  <2>2. q \in Seq(Letters) /\ ToSet(q) \subseteq ToSet(picker.query)
    BY <2>1 DEF Front, ToSet
  <2>3. NowAt(q, FirstOption(Rows(q)))
    BY <1>4 DEF EraseLetter, PickerInv
  <2> HIDE DEF q
  <2>4. PICK g \in DOMAIN Groups : \E k \in DOMAIN Groups[g].options : Matches(Groups[g].options[k], picker.query)
    BY <2>1, OptionsAre
  <2>5. \E k \in DOMAIN Groups[g].options : Matches(Groups[g].options[k], q)
    BY <2>2, <2>4 DEF Matches
  <2>6. OptionRows(Rows(q)) # {}
    BY Zenon, <2>5, OptionsAre
  <2>7. Fine(q, FirstOption(Rows(q)))
    BY Zenon, <2>2, <2>6, FirstIsOption DEF Fine
  <2> QED BY Zenon, <1>1, <2>3, <2>7
<1>5. ASSUME NEW delta \in {-1, 1}, MoveCursor(delta) PROVE PickerInv'
  <2> DEFINE rows == Rows(picker.query)
             c == Step(rows, picker.cursor, delta)
  <2>1. picker.query \in Seq(Letters) /\ picker.cursor \in OptionRows(rows) /\ NowAt(picker.query, c)
    BY <1>5 DEF MoveCursor, PickerInv
  <2>2. rows \in Seq(RowType)
    BY OptionsAre
  <2> HIDE DEF rows
  <2>3. c \in OptionRows(rows)
    BY <2>1, <2>2, StepsToOption
  <2>4. Fine(picker.query, c)
    BY <2>1, <2>3 DEF Fine, rows
  <2> HIDE DEF c
  <2> QED BY Zenon, <1>1, <2>1, <2>4
<1>6. CASE ChooseOrCancel
  <2>1. picker'.stage = "closed" /\ picker' \in [stage : {"open", "closed"}, query : Seq(Letters), cursor : Nat]
    BY <1>6 DEF ChooseOrCancel, PickerInv
  <2> QED BY <2>1 DEF PickerInv
<1>7. CASE UNCHANGED picker
  BY Zenon, <1>7 DEF PickerInv, Rows, OptionRows
<1> QED BY Zenon, <1>2, <1>3, <1>4, <1>5, <1>6, <1>7 DEF PickerNext

LEMMA PickerHolds == ASSUME PickerInv PROVE PickerSteady
<1> SUFFICES ASSUME picker.stage = "open" PROVE PickerSteady
  BY DEF PickerSteady
<1>1. picker.cursor \in OptionRows(Rows(picker.query))
  BY DEF PickerInv
<1>2. Rows(picker.query) \in Seq(RowType)
  BY OptionsAre
<1> QED BY Zenon, <1>1, <1>2, OnScreen DEF PickerSteady

-----------------------------------------------------------------------------
(* The keyboard of the terminal: every key, every answer. *)

KeysIn(queue) == UNION {ToSet(queue[i]) : i \in DOMAIN queue}

LEMMA KeyOf == ASSUME NEW queue PROVE \A k : k \in KeysIn(queue) <=> \E s \in ToSet(queue) : k \in ToSet(s)
  BY DEF KeysIn, ToSet

LEMMA Added ==
  ASSUME NEW T, NEW s \in Seq(T), NEW x \in T
  PROVE  Append(s, x) \in Seq(T) /\ ToSet(Append(s, x)) = ToSet(s) \cup {x}
<1>1. Append(s, x) = s \o <<x>> /\ <<x>> \in Seq(T)
  OBVIOUS
<1>2. ToSet(<<x>>) = {x}
  BY Lone
<1>3. s \o <<x>> \in Seq(T) /\ ToSet(s \o <<x>>) = ToSet(s) \cup ToSet(<<x>>)
  BY ZenonT(60), <1>1, Joined
<1> QED BY <1>1, <1>2, <1>3

\* The last of a sequence and the others.
LEMMA Split ==
  ASSUME NEW T, NEW s \in Seq(T), s # <<>>
  PROVE  Front(s) \in Seq(T) /\ Last(s) \in T /\ ToSet(s) = ToSet(Front(s)) \cup {Last(s)}
<1>1. Front(s) \in Seq(T) /\ Last(s) \in T /\ s = Append(Front(s), Last(s))
  BY DEF Front, Last
<1> QED BY ZenonT(120), <1>1, Added

LEMMA KeysJoined ==
  ASSUME NEW a \in Seq(Seq(Nat)), NEW b \in Seq(Seq(Nat))
  PROVE  a \o b \in Seq(Seq(Nat)) /\ KeysIn(a \o b) = KeysIn(a) \cup KeysIn(b)
<1>1. a \o b \in Seq(Seq(Nat)) /\ ToSet(a \o b) = ToSet(a) \cup ToSet(b)
  BY Joined
<1> QED BY Zenon, <1>1, KeyOf

LEMMA KeysAdded ==
  ASSUME NEW queue \in Seq(Seq(Nat)), NEW line \in Seq(Nat)
  PROVE  /\ Append(queue, line) \in Seq(Seq(Nat)) /\ KeysIn(Append(queue, line)) = KeysIn(queue) \cup ToSet(line)
         /\ KeysIn(<<line>>) = ToSet(line)
<1>1. Append(queue, line) \in Seq(Seq(Nat)) /\ ToSet(Append(queue, line)) = ToSet(queue) \cup {line}
  BY Added
<1>2. KeysIn(Append(queue, line)) = KeysIn(queue) \cup ToSet(line)
  BY ZenonT(60), <1>1, KeyOf
<1>3. KeysIn(<<line>>) = ToSet(line)
  <2>1. \A s : s \in ToSet(<<line>>) <=> s = line
    BY Lone
  <2>2. \A k : k \in KeysIn(<<line>>) <=> \E s \in ToSet(<<line>>) : k \in ToSet(s)
    BY KeyOf
  <2>3. \A k : k \in KeysIn(<<line>>) <=> k \in ToSet(line)
    BY SMTT(60), <2>1, <2>2
  <2> QED BY <2>3
<1> QED BY <1>1, <1>2, <1>3

LEMMA NoKeys == KeysIn(<<>>) = {} /\ ToSet(<<>>) = {}
  BY DEF KeysIn, ToSet

KeysTyped ==
  /\ draft \in Seq(Nat) /\ inbox \in Seq(Seq(Nat)) /\ told \in Seq(Seq(Nat)) /\ stillTyped \in Seq(Seq(Nat))
  /\ pressed \in Nat
\* Nothing is carried while a turn runs, and nothing is queued between turns.
KeysPlaced ==
  /\ turn.stage \in {"running", "forced"} => stillTyped = <<>>
  /\ turn.stage \in {"idle", "over"} => inbox = <<>> /\ draft = <<>>
KeysKept ==
  1 .. pressed = ToSet(draft) \cup KeysIn(inbox) \cup KeysIn(told) \cup KeysIn(stillTyped) \cup erased \cup eaten

LEMMA OneMore == ASSUME NEW n \in Nat PROVE n + 1 \in Nat /\ 1 .. n + 1 = (1 .. n) \cup {n + 1}
  OBVIOUS

\* Whatever reads a key of the composer, the key goes to one place.
LEMMA ComposerKeeps ==
  ASSUME KeysTyped, KeysKept, NEW key \in {"y", "x", "enter", "cancel", "backspace"}, ComposerReads(key)
  PROVE  KeysTyped' /\ KeysKept'
<1>1. /\ pressed' = pressed + 1 /\ UNCHANGED <<told, stillTyped>>
      /\ NewKey = pressed + 1 /\ NewKey \in Nat /\ 1 .. pressed' = (1 .. pressed) \cup {NewKey}
  BY OneMore DEF ComposerReads, Press, NewKey, KeysTyped

<1>2. \/ draft' = <<>> /\ erased' = erased \cup ToSet(draft) \cup {NewKey} /\ UNCHANGED <<inbox, eaten>>
      \/ erased' = erased \cup {NewKey} /\ UNCHANGED <<draft, inbox, eaten>>
      \/ draft # <<>> /\ inbox' = Append(inbox, draft) /\ draft' = <<>> /\ erased' = erased \cup {NewKey} /\ UNCHANGED eaten
      \/ draft = <<>> /\ inbox' = inbox /\ draft' = <<>> /\ erased' = erased \cup {NewKey} /\ UNCHANGED eaten
      \/ draft # <<>> /\ draft' = Front(draft) /\ erased' = erased \cup {NewKey} \cup {Last(draft)} /\ UNCHANGED <<inbox, eaten>>
      \/ draft' = Append(draft, NewKey) /\ UNCHANGED <<inbox, erased, eaten>>
      \/ eaten' = eaten \cup {NewKey} /\ UNCHANGED <<draft, inbox, erased>>
  BY DEF ComposerReads
<1>3. CASE draft' = <<>> /\ erased' = erased \cup ToSet(draft) \cup {NewKey} /\ UNCHANGED <<inbox, eaten>>
  BY <1>1, <1>3, NoKeys DEF KeysTyped, KeysKept
<1>4. CASE erased' = erased \cup {NewKey} /\ UNCHANGED <<draft, inbox, eaten>>
  BY <1>1, <1>4 DEF KeysTyped, KeysKept
<1>5. CASE draft # <<>> /\ inbox' = Append(inbox, draft) /\ draft' = <<>> /\ erased' = erased \cup {NewKey} /\ UNCHANGED eaten
  <2>1. inbox' \in Seq(Seq(Nat)) /\ KeysIn(inbox') = KeysIn(inbox) \cup ToSet(draft)
    BY <1>5, KeysAdded DEF KeysTyped
  <2> QED BY <1>1, <1>5, <2>1, NoKeys DEF KeysTyped, KeysKept
<1>6. CASE draft = <<>> /\ inbox' = inbox /\ draft' = <<>> /\ erased' = erased \cup {NewKey} /\ UNCHANGED eaten
  BY <1>1, <1>6 DEF KeysTyped, KeysKept
<1>7. CASE draft # <<>> /\ draft' = Front(draft) /\ erased' = erased \cup {NewKey} \cup {Last(draft)} /\ UNCHANGED <<inbox, eaten>>
  <2>1. draft' \in Seq(Nat) /\ ToSet(draft) = ToSet(draft') \cup {Last(draft)}
    BY <1>7, Split DEF KeysTyped
  <2> QED BY <1>1, <1>7, <2>1 DEF KeysTyped, KeysKept
<1>8. CASE draft' = Append(draft, NewKey) /\ UNCHANGED <<inbox, erased, eaten>>
  <2>1. draft' \in Seq(Nat) /\ ToSet(draft') = ToSet(draft) \cup {NewKey}
    <3>1. draft \in Seq(Nat) /\ NewKey \in Nat /\ draft' = Append(draft, NewKey)
      BY <1>1, <1>8 DEF KeysTyped
    <3>2. Append(draft, NewKey) \in Seq(Nat) /\ ToSet(Append(draft, NewKey)) = ToSet(draft) \cup {NewKey}
      BY <3>1, Added
    <3> QED BY <3>1, <3>2
  <2> QED BY <1>1, <1>8, <2>1 DEF KeysTyped, KeysKept
<1>9. CASE eaten' = eaten \cup {NewKey} /\ UNCHANGED <<draft, inbox, erased>>
  BY <1>1, <1>9 DEF KeysTyped, KeysKept
<1> QED BY <1>2, <1>3, <1>4, <1>5, <1>6, <1>7, <1>8, <1>9

\* Every step of the keyboard keeps account of every key.
LEMMA KeysStep ==
  ASSUME KeysTyped, KeysKept, KeysPlaced, KeyNext PROVE KeysTyped' /\ KeysKept'
<1> DEFINE Lines == <<draft, inbox, told, stillTyped>>
<1>1. ASSUME UNCHANGED Lines, NoKey PROVE KeysTyped' /\ KeysKept'
  BY <1>1 DEF NoKey, KeysTyped, KeysKept
<1>2. ASSUME UNCHANGED Lines, pressed' = NewKey, eaten' = eaten \cup {NewKey}, UNCHANGED erased PROVE KeysTyped' /\ KeysKept'
  <2>1. pressed' \in Nat /\ 1 .. pressed' = (1 .. pressed) \cup {NewKey}
    BY <1>2, OneMore DEF NewKey, KeysTyped
  <2> QED BY <1>2, <2>1 DEF KeysTyped, KeysKept
<1>3. CASE StartTurn
  BY <1>3, NoKeys DEF StartTurn, NoKey, KeysTyped, KeysKept, KeysPlaced
<1>4. CASE DrawFrame \/ Signalled \/ BackToPrompt
  BY <1>1, <1>4 DEF DrawFrame, Signalled, BackToPrompt
<1>5. CASE LateRead
  BY <1>2, <1>5 DEF LateRead, Press
<1>6. CASE ClaimInbox
  <2>1. told' \in Seq(Seq(Nat)) /\ KeysIn(told') = KeysIn(told) \cup KeysIn(inbox)
    BY <1>6, KeysJoined DEF ClaimInbox, KeysTyped
  <2> QED BY <1>6, <2>1, NoKeys DEF ClaimInbox, NoKey, KeysTyped, KeysKept
<1>7. CASE EndTurn
  <2>1. stillTyped' = Carried(inbox, draft) /\ inbox' = <<>> /\ draft' = <<>> /\ UNCHANGED told /\ NoKey
    BY <1>7 DEF EndTurn
  <2>2. Carried(inbox, draft) \in Seq(Seq(Nat)) /\ KeysIn(Carried(inbox, draft)) = KeysIn(inbox) \cup ToSet(draft)
    <3>1. CASE draft = <<>>
      <4>1. Carried(inbox, draft) = inbox
        BY <3>1 DEF Carried, KeysTyped
      <4> QED BY <3>1, <4>1, NoKeys DEF KeysTyped
    <3>2. CASE draft # <<>>
      <4>1. Carried(inbox, draft) = inbox \o <<draft>> /\ inbox \in Seq(Seq(Nat)) /\ draft \in Seq(Nat) /\ <<draft>> \in Seq(Seq(Nat))
        BY <3>2 DEF Carried, KeysTyped
      <4>2. inbox \o <<draft>> \in Seq(Seq(Nat)) /\ KeysIn(inbox \o <<draft>>) = KeysIn(inbox) \cup KeysIn(<<draft>>)
        BY <4>1, KeysJoined
      <4>3. KeysIn(<<draft>>) = ToSet(draft)
        BY <4>1, KeysAdded
      <4> QED BY <4>1, <4>2, <4>3
    <3> QED BY <3>1, <3>2
  <2>3. KeysIn(stillTyped) = {}
    BY <1>7, NoKeys DEF EndTurn, KeysPlaced
  <2> QED BY <2>1, <2>2, <2>3, NoKeys DEF NoKey, KeysTyped, KeysKept
<1>8. ASSUME NEW a \in Asks, Ask(a, "gate") \/ Ask(a, "consult") \/ PromptAbandoned(a) PROVE KeysTyped' /\ KeysKept'
  BY <1>1, <1>8 DEF Ask, PromptAbandoned
<1>9. ASSUME NEW a \in Asks, ConsultReads(a) PROVE KeysTyped' /\ KeysKept'
  BY <1>2, <1>9 DEF ConsultReads, Press
<1>10. ASSUME NEW a \in Asks, NEW key, PromptReads(a, key) PROVE KeysTyped' /\ KeysKept'
  BY <1>2, <1>10 DEF PromptReads, Press
<1>11. ASSUME NEW key \in {"y", "x", "enter", "cancel", "backspace"}, ComposerReads(key) PROVE KeysTyped' /\ KeysKept'
  BY <1>11, ComposerKeeps
<1>12. ASSUME NEW keep \in BOOLEAN, SubmitCarried(keep) PROVE KeysTyped' /\ KeysKept'
  <2>1. CASE keep
    <3>1. told' = told \o stillTyped /\ UNCHANGED erased
      BY <1>12, <2>1 DEF SubmitCarried
    <3>2. told' \in Seq(Seq(Nat)) /\ KeysIn(told') = KeysIn(told) \cup KeysIn(stillTyped)
      BY <3>1, KeysJoined DEF KeysTyped
    <3> QED BY <1>12, <3>1, <3>2, NoKeys DEF SubmitCarried, KeysTyped, KeysKept
  <2>2. CASE ~keep
    <3>1. UNCHANGED told /\ erased' = erased \cup KeysIn(stillTyped)
      BY <1>12, <2>2 DEF SubmitCarried, KeysIn
    <3> QED BY <1>12, <3>1, NoKeys DEF SubmitCarried, KeysTyped, KeysKept
  <2> QED BY <2>1, <2>2
<1> QED BY Zenon, <1>3, <1>4, <1>5, <1>6, <1>7, <1>8, <1>9, <1>10, <1>11, <1>12 DEF KeyNext

TurnType == [stage : {"idle", "running", "forced", "over"}, signal : BOOLEAN, keyPresses : Nat, signals : Nat, overlapped : BOOLEAN]
AskType == [stage : {"none", "open", "orphan", "over"}, kind : {"gate", "consult"}, cursor : Nat,
            answer : {"none", "approved", "refused"}, by : {"none", "line", "abandoned", "accident", "chosen", "y", "a", "n", "t", "cancel"}]
AsksTyped ==
  /\ turn \in TurnType /\ asks \in [Asks -> AskType]
  /\ region \in [paused : BOOLEAN, drawn : Nat]
\* Between turns no question is open; an open one has the screen to itself.
AsksHold ==
  /\ turn.stage \in {"idle", "over"} => OpenAsks = {}
  /\ ~turn.overlapped => \A a, b \in OpenAsks : a = b
  /\ ~turn.overlapped /\ OpenAsks # {} => region.paused /\ region.drawn = 0

LEMMA OpenAre == \A a : a \in OpenAsks <=> a \in Asks /\ asks[a].stage = "open"
  BY DEF OpenAsks

LEMMA OpenNext == \A a : a \in OpenAsks' <=> a \in Asks /\ asks'[a].stage = "open"
  BY DEF OpenAsks

LEMMA Answered ==
  ASSUME NEW r \in AskType, NEW x, NEW y
  PROVE  [r EXCEPT !.stage = "over", !.by = x, !.answer = y]
           = [stage |-> "over", kind |-> r.kind, cursor |-> r.cursor, answer |-> y, by |-> x]
<1>1. DOMAIN r = {"stage", "kind", "cursor", "answer", "by"} /\ r = [f \in DOMAIN r |-> r[f]]
  BY DEF AskType
<1> DEFINE l == [r EXCEPT !.stage = "over", !.by = x, !.answer = y]
           m == [stage |-> "over", kind |-> r.kind, cursor |-> r.cursor, answer |-> y, by |-> x]
<1>2. l = [f \in DOMAIN r |-> l[f]] /\ m = [f \in DOMAIN r |-> m[f]]
  BY <1>1
<1>3. l.stage = "over" /\ l.kind = r.kind /\ l.cursor = r.cursor /\ l.answer = y /\ l.by = x
  BY <1>1
<1>4. m.stage = "over" /\ m.kind = r.kind /\ m.cursor = r.cursor /\ m.answer = y /\ m.by = x
  OBVIOUS
<1> HIDE DEF l, m
<1>5. \A f \in DOMAIN r : l[f] = m[f]
  BY <1>1, <1>3, <1>4
<1>6. l = m
  BY <1>2, <1>5
<1> QED BY <1>6 DEF l, m

\* An answer closes the question it is given to.
LEMMA ToldCloses ==
  ASSUME AsksTyped, AsksHold, ApprovedDeliberately, NEW a \in Reading, UNCHANGED turn,
         NEW answer \in {"approved", "refused"},
         NEW by \in {"none", "line", "abandoned", "accident", "chosen", "y", "a", "n", "t", "cancel"},
         answer = "approved" => by \in {"y", "a", "chosen"} /\ asks[a].kind = "gate",
         Told(a, answer, by)
  PROVE  AsksTyped' /\ AsksHold' /\ ApprovedDeliberately'
<1>1. a \in Asks /\ asks[a] \in AskType
  BY DEF Reading, AsksTyped
<1> DEFINE told1 == IF asks[a].stage = "orphan" THEN "refused" ELSE answer
           r == [stage |-> "over", kind |-> asks[a].kind, cursor |-> asks[a].cursor, answer |-> told1, by |-> by]
<1>2. asks' = [asks EXCEPT ![a] = r]
  <2>1. [asks[a] EXCEPT !.stage = "over", !.by = by, !.answer = told1] = r
    <3> HIDE DEF told1
    <3> QED BY ZenonT(60), <1>1, Answered
  <2> QED BY <2>1 DEF Told
<1>3. r \in AskType
  BY <1>1 DEF AskType
<1>4. r.stage = "over" /\ (r.answer = "approved" => r.by \in {"y", "a", "chosen"} /\ r.kind = "gate")
  OBVIOUS
<1> HIDE DEF r
<1>5. asks' \in [Asks -> AskType] /\ asks'[a] = r /\ \A b \in Asks \ {a} : asks'[b] = asks[b]
  BY <1>1, <1>2, <1>3 DEF AsksTyped
<1>6. region' \in [paused : BOOLEAN, drawn : Nat] /\ region'.drawn = region.drawn
      /\ (asks[a].stage # "open" => region' = region)
  BY DEF Told, AsksTyped
<1>7. OpenAsks' = OpenAsks \ {a}
  BY <1>1, <1>4, <1>5, OpenAre, OpenNext
<1>8. ApprovedDeliberately'
  BY <1>4, <1>5 DEF ApprovedDeliberately
<1>9. AsksTyped'
  BY <1>5, <1>6 DEF AsksTyped
<1>10. AsksHold'
  <2>1. CASE a \in OpenAsks
    BY <1>7, <2>1 DEF AsksHold
  <2>2. CASE a \notin OpenAsks
    <3>1. region' = region /\ OpenAsks' = OpenAsks
      BY <1>1, <1>6, <1>7, <2>2, OpenAre
    <3> QED BY Zenon, <3>1 DEF AsksHold
  <2> QED BY <2>1, <2>2
<1> QED BY <1>8, <1>9, <1>10

\* A key read by a prompt moves its cursor or answers it.
LEMMA PromptSettles ==
  ASSUME AsksTyped, AsksHold, ApprovedDeliberately, NEW a \in Asks,
         NEW key \in {"y", "n", "enter", "cancel", "up", "x"}, PromptReads(a, key)
  PROVE  AsksTyped' /\ AsksHold' /\ ApprovedDeliberately'
<1>1. a \in Reading /\ asks[a].kind = "gate" /\ UNCHANGED turn
  BY DEF PromptReads
<1>2. \/ Told(a, "approved", "y")
      \/ key \in {"n", "cancel"} /\ Told(a, "refused", key)
      \/ Told(a, Picked(asks[a].cursor), IF asks[a].cursor = FirstCursor THEN "accident" ELSE "chosen")
      \/ asks' = [asks EXCEPT ![a].cursor = ((@ + Len(Answers) - 2) % Len(Answers)) + 1] /\ UNCHANGED region
      \/ UNCHANGED <<asks, region>>
  BY DEF PromptReads
<1>3. CASE Told(a, "approved", "y")
  BY <1>1, <1>3, ToldCloses
<1>4. CASE key \in {"n", "cancel"} /\ Told(a, "refused", key)
  BY <1>1, <1>4, ToldCloses
<1>5. CASE Told(a, Picked(asks[a].cursor), IF asks[a].cursor = FirstCursor THEN "accident" ELSE "chosen")
  <2> DEFINE p == Picked(asks[a].cursor)
             by == IF asks[a].cursor = FirstCursor THEN "accident" ELSE "chosen"
  <2>1. p \in {"approved", "refused"}
    BY DEF Picked
  <2>2. asks[a].cursor = FirstCursor => p = "refused"
    BY DEF Picked, FirstCursor, Answers
  <2>3. Told(a, p, by) /\ by \in {"accident", "chosen"} /\ (p = "approved" => by = "chosen")
    BY <1>5, <2>2
  <2> HIDE DEF p, by
  <2> QED BY <1>1, <2>1, <2>3, ToldCloses
<1>6. CASE asks' = [asks EXCEPT ![a].cursor = ((@ + Len(Answers) - 2) % Len(Answers)) + 1] /\ UNCHANGED region
  <2> DEFINE c == ((asks[a].cursor + Len(Answers) - 2) % Len(Answers)) + 1
  <2>1. c \in Nat
    <3>1. asks[a].cursor \in Nat /\ Len(Answers) = 4
      BY DEF AsksTyped, AskType, Answers
    <3> QED BY <3>1
  <2>2. asks' = [asks EXCEPT ![a].cursor = c]
    BY <1>6
  <2> HIDE DEF c
  <2>3. asks' \in [Asks -> AskType]
    BY <2>1, <2>2 DEF AsksTyped, AskType
  <2>4. \A b \in Asks : asks'[b].stage = asks[b].stage /\ asks'[b].answer = asks[b].answer
                     /\ asks'[b].by = asks[b].by /\ asks'[b].kind = asks[b].kind
    BY <2>2 DEF AsksTyped, AskType
  <2>5. OpenAsks' = OpenAsks
    BY <2>4, OpenAre, OpenNext
  <2>6. ApprovedDeliberately'
    BY <2>4 DEF ApprovedDeliberately
  <2> QED BY <1>1, <1>6, <2>3, <2>5, <2>6 DEF AsksTyped, AsksHold
<1>7. CASE UNCHANGED <<asks, region>>
  BY <1>1, <1>7 DEF AsksTyped, AsksHold, ApprovedDeliberately, OpenAsks
<1> QED BY <1>2, <1>3, <1>4, <1>5, <1>6, <1>7

\* Every step of the keyboard keeps the questions in order.
LEMMA AsksStep ==
  ASSUME AsksTyped, AsksHold, ApprovedDeliberately, KeyNext
  PROVE  AsksTyped' /\ AsksHold' /\ ApprovedDeliberately'
<1> DEFINE Goal == AsksTyped' /\ AsksHold' /\ ApprovedDeliberately'
<1>1. CASE StartTurn
  <2>1. /\ turn' = [stage |-> "running", signal |-> FALSE, keyPresses |-> 0, signals |-> 0, overlapped |-> FALSE]
        /\ turn.stage = "idle" /\ region' = [paused |-> FALSE, drawn |-> 0] /\ UNCHANGED asks
    BY <1>1 DEF StartTurn
  <2>2. OpenAsks = {} /\ OpenAsks' = {}
    BY <2>1 DEF AsksHold, OpenAsks
  <2> QED BY <2>1, <2>2 DEF AsksTyped, TurnType, AsksHold, ApprovedDeliberately
<1>2. CASE DrawFrame
  <2>1. /\ ~region.paused /\ region' = [region EXCEPT !.drawn = Frame] /\ UNCHANGED <<turn, asks>> /\ Frame \in Nat
    BY <1>2 DEF DrawFrame, Frame
  <2>2. region' \in [paused : BOOLEAN, drawn : Nat] /\ OpenAsks' = OpenAsks
    BY <2>1 DEF AsksTyped, OpenAsks
  <2> QED BY <2>1, <2>2 DEF AsksTyped, AsksHold, ApprovedDeliberately
<1>3. ASSUME UNCHANGED <<asks, region>>, turn' \in TurnType, turn'.overlapped = turn.overlapped,
             turn'.stage \in {"idle", "over"} => turn.stage \in {"idle", "over"} PROVE Goal
  <2>1. OpenAsks' = OpenAsks
    BY <1>3 DEF OpenAsks
  <2> QED BY <1>3, <2>1 DEF AsksTyped, AsksHold, ApprovedDeliberately
<1>4. CASE Signalled
  <2>1. turn' \in TurnType /\ turn'.overlapped = turn.overlapped /\ turn'.stage \in {"running", "forced"} /\ UNCHANGED <<asks, region>>
    <3> DEFINE st == IF Forces(turn.signals + 1) THEN "forced" ELSE turn.stage
    <3>1. turn' = [turn EXCEPT !.signals = turn.signals + 1, !.signal = TRUE, !.stage = st] /\ turn.stage = "running" /\ UNCHANGED <<asks, region>>
      BY <1>4 DEF Signalled
    <3>2. st \in {"running", "forced"} /\ turn \in TurnType /\ turn.signals + 1 \in Nat
      BY <3>1 DEF AsksTyped, TurnType
    <3> HIDE DEF st
    <3> QED BY Zenon, <3>1, <3>2 DEF TurnType
  <2> QED BY <1>3, <2>1
<1>5. CASE LateRead \/ BackToPrompt
  <2>1. turn' \in TurnType /\ turn'.overlapped = turn.overlapped /\ turn.stage = "over" /\ UNCHANGED <<asks, region>>
    BY <1>5 DEF LateRead, BackToPrompt, AsksTyped, TurnType
  <2> QED BY <1>3, <2>1
<1>6. CASE ClaimInbox \/ \E keep \in BOOLEAN : SubmitCarried(keep)
  <2>1. UNCHANGED <<turn, asks, region>>
    BY <1>6 DEF ClaimInbox, SubmitCarried
  <2> QED BY <1>3, <2>1 DEF AsksTyped
<1>7. ASSUME NEW key \in {"y", "x", "enter", "cancel", "backspace"}, ComposerReads(key) PROVE Goal
  <2>1. UNCHANGED <<asks, region>> /\ turn.stage = "running"
    BY <1>7 DEF ComposerReads
  <2>2. UNCHANGED turn \/ turn' = [turn EXCEPT !.keyPresses = @ + 1, !.signal = TRUE,
                 !.stage = IF Forces(turn.keyPresses + 1) THEN "forced" ELSE @]
    BY <1>7 DEF ComposerReads
  <2>3. turn' \in TurnType /\ turn'.overlapped = turn.overlapped /\ turn'.stage \in {"running", "forced"}
    <3> DEFINE st == IF Forces(turn.keyPresses + 1) THEN "forced" ELSE turn.stage
    <3>1. UNCHANGED turn \/ turn' = [turn EXCEPT !.keyPresses = turn.keyPresses + 1, !.signal = TRUE, !.stage = st]
      BY <2>2
    <3>2. st \in {"running", "forced"} /\ turn \in TurnType /\ turn.keyPresses + 1 \in Nat
      BY <2>1 DEF AsksTyped, TurnType
    <3> HIDE DEF st
    <3> QED BY Zenon, <2>1, <3>1, <3>2 DEF TurnType
  <2> QED BY <1>3, <2>1, <2>3
<1>8. CASE EndTurn
  <2>1. /\ turn' = [turn EXCEPT !.stage = "over"] /\ region' = [paused |-> TRUE, drawn |-> 0]
        /\ asks' = [a \in Asks |-> IF asks[a].stage = "open" THEN [asks[a] EXCEPT !.stage = "orphan"] ELSE asks[a]]
    BY <1>8 DEF EndTurn, PausedRegion
  <2>2. asks' \in [Asks -> AskType] /\ \A a \in Asks : /\ asks'[a].stage # "open" /\ asks'[a].answer = asks[a].answer
                                                       /\ asks'[a].by = asks[a].by /\ asks'[a].kind = asks[a].kind
    BY <2>1 DEF AsksTyped, AskType
  <2>3. OpenAsks' = {}
    BY <2>2, OpenNext
  <2>4. ApprovedDeliberately'
    BY <2>2 DEF ApprovedDeliberately
  <2> QED BY <2>1, <2>2, <2>3, <2>4 DEF AsksTyped, TurnType, AsksHold
<1>9. ASSUME NEW a \in Asks, NEW kind \in {"gate", "consult"}, Ask(a, kind) PROVE Goal
  <2>1. turn.stage = "running" /\ asks[a].stage = "none"
    BY <1>9 DEF Ask
  <2>2. CASE turn.signal
    <3> DEFINE r == [stage |-> "over", kind |-> kind, cursor |-> 0, answer |-> "refused", by |-> "none"]
    <3>1. asks' = [asks EXCEPT ![a] = r] /\ UNCHANGED <<region, turn>>
      BY <1>9, <2>2 DEF Ask, Quiet
    <3>2. asks' \in [Asks -> AskType]
      BY <1>9, <3>1 DEF AsksTyped, AskType
    <3>3. OpenAsks' = OpenAsks
      BY <2>1, <3>1, OpenAre, OpenNext DEF AsksTyped
    <3>4. ApprovedDeliberately'
      BY <3>1 DEF ApprovedDeliberately, AsksTyped
    <3> QED BY <3>1, <3>2, <3>3, <3>4 DEF AsksTyped, AsksHold
  <2>3. CASE ~turn.signal
    <3> DEFINE r == [stage |-> "open", kind |-> kind, cursor |-> 4, answer |-> "none", by |-> "none"]
    <3>1. /\ asks' = [asks EXCEPT ![a] = r] /\ region' = [paused |-> TRUE, drawn |-> 0]
          /\ turn' = [turn EXCEPT !.overlapped = @ \/ OpenAsks # {}]
      BY <1>9, <2>3 DEF Ask, Quiet, PausedRegion, FirstCursor, Answers
    <3>2. asks' \in [Asks -> AskType]
      BY <1>9, <3>1 DEF AsksTyped, AskType
    <3>3. OpenAsks' = OpenAsks \cup {a}
      BY <2>1, <3>1, OpenAre, OpenNext DEF AsksTyped
    <3>4. ApprovedDeliberately'
      BY <3>1 DEF ApprovedDeliberately, AsksTyped
    <3>5. turn' \in TurnType /\ turn'.stage = "running"
      BY Zenon, <2>1, <3>1 DEF AsksTyped, TurnType
    <3>6. turn'.overlapped = (turn.overlapped \/ OpenAsks # {})
      BY <3>1 DEF AsksTyped, TurnType
    <3>7. AsksHold'
      BY <3>1, <3>3, <3>5, <3>6 DEF AsksHold
    <3> QED BY <3>1, <3>2, <3>4, <3>5, <3>7 DEF AsksTyped
  <2> QED BY <2>2, <2>3
<1>10. ASSUME NEW a \in Asks, ConsultReads(a) \/ PromptAbandoned(a) PROVE Goal
  <2>1. a \in Reading /\ UNCHANGED turn /\ (Told(a, "refused", "line") \/ Told(a, "refused", "abandoned"))
    BY <1>10 DEF ConsultReads, PromptAbandoned
  <2> QED BY <2>1, ToldCloses
<1>11. ASSUME NEW a \in Asks, NEW key \in {"y", "n", "enter", "cancel", "up", "x"}, PromptReads(a, key) PROVE Goal
  BY <1>11, PromptSettles
<1>12. ASSUME NEW a \in Asks, Ask(a, "gate") \/ Ask(a, "consult") PROVE Goal
  BY <1>9, <1>12
<1>13. CASE StartTurn \/ DrawFrame \/ Signalled \/ ClaimInbox \/ EndTurn \/ LateRead \/ BackToPrompt
  BY <1>1, <1>2, <1>4, <1>5, <1>6, <1>8, <1>13
<1>14. CASE ~(StartTurn \/ DrawFrame \/ Signalled \/ ClaimInbox \/ EndTurn \/ LateRead \/ BackToPrompt)
  BY Zenon, <1>6, <1>7, <1>10, <1>11, <1>12, <1>14 DEF KeyNext
<1> QED BY Zenon, <1>13, <1>14

LEMMA QuestionHolds == ASSUME AsksTyped, AsksHold PROVE QuestionReadable
  BY DEF AsksHold, QuestionReadable, AsksTyped, TurnType

\* What is queued and carried follows the turn.
LEMMA PlacedStep ==
  ASSUME AsksTyped, KeysPlaced, KeyNext PROVE KeysPlaced'
<1>1. CASE StartTurn
  BY <1>1 DEF StartTurn, KeysPlaced
<1>2. CASE EndTurn
  <2>1. turn'.stage = "over" /\ inbox' = <<>> /\ draft' = <<>>
    BY <1>2 DEF EndTurn, AsksTyped, TurnType
  <2> QED BY <2>1 DEF KeysPlaced
<1>3. CASE LateRead \/ BackToPrompt
  <2>1. turn'.stage = "idle" /\ turn.stage = "over" /\ UNCHANGED <<inbox, draft>>
    BY <1>3 DEF LateRead, BackToPrompt, AsksTyped, TurnType
  <2> QED BY <2>1 DEF KeysPlaced
<1>4. CASE ClaimInbox
  BY <1>4 DEF ClaimInbox, KeysPlaced
<1>5. CASE Signalled
  <2>1. turn'.stage \in {"running", "forced"} /\ turn.stage = "running" /\ UNCHANGED stillTyped
    BY <1>5 DEF Signalled, AsksTyped, TurnType
  <2> QED BY <2>1 DEF KeysPlaced
<1>6. ASSUME NEW key \in {"y", "x", "enter", "cancel", "backspace"}, ComposerReads(key) PROVE KeysPlaced'
  <2>1. UNCHANGED stillTyped /\ turn.stage = "running"
    BY <1>6 DEF ComposerReads
  <2>2. UNCHANGED turn \/ turn' = [turn EXCEPT !.keyPresses = @ + 1, !.signal = TRUE,
                 !.stage = IF Forces(turn.keyPresses + 1) THEN "forced" ELSE @]
    BY <1>6 DEF ComposerReads
  <2>3. turn'.stage \in {"running", "forced"}
    BY <2>1, <2>2 DEF AsksTyped, TurnType
  <2> QED BY <2>1, <2>3 DEF KeysPlaced
<1>7. ASSUME NEW keep \in BOOLEAN, SubmitCarried(keep) PROVE KeysPlaced'
  BY <1>7 DEF SubmitCarried, KeysPlaced
<1>8. ASSUME NEW a \in Asks, NEW kind \in {"gate", "consult"}, Ask(a, kind) PROVE KeysPlaced'
  <2>1. turn'.stage = turn.stage /\ UNCHANGED <<inbox, draft, stillTyped>>
    BY <1>8 DEF Ask, AsksTyped, TurnType
  <2> QED BY <2>1 DEF KeysPlaced
<1>9. ASSUME NEW a \in Asks, ConsultReads(a) \/ PromptAbandoned(a) PROVE KeysPlaced'
  BY <1>9 DEF ConsultReads, PromptAbandoned, KeysPlaced
<1>10. ASSUME NEW a \in Asks, NEW key, PromptReads(a, key) PROVE KeysPlaced'
  BY <1>10 DEF PromptReads, KeysPlaced
<1>11. CASE DrawFrame
  BY <1>11 DEF DrawFrame, KeysPlaced
<1>12. ASSUME NEW a \in Asks, Ask(a, "gate") \/ Ask(a, "consult") PROVE KeysPlaced'
  BY <1>8, <1>12
<1> QED BY Zenon, <1>1, <1>2, <1>3, <1>4, <1>5, <1>6, <1>7, <1>9, <1>10, <1>11, <1>12 DEF KeyNext

-----------------------------------------------------------------------------
(* The sessions of the terminals and their records. *)

EntryType == [turn : Nat, whole : BOOLEAN]
Messages == Seq(EntryType)
SessionType == [id : Nat, messages : Messages, turns : Nat,
                checkpoints : Seq([turn : Nat, messages : Messages, taken : Messages])]
RecordType == [messages : Messages, turns : Nat]
Intact(s) == \A n \in DOMAIN s.checkpoints : s.checkpoints[n].messages = s.checkpoints[n].taken

SessionsTyped ==
  /\ sessions \in [Terminals -> SessionType]
  /\ \A w \in Terminals : Intact(sessions[w]) /\ sessions[w].id =< ids
  /\ saves \in Seq(Nat) /\ DOMAIN records = ToSet(saves)
  /\ \A i \in DOMAIN records : i \in Nat /\ i =< ids /\ records[i] \in RecordType
  /\ ids \in Nat /\ spoken \in Nat

InRecord(t) == \E i \in DOMAIN records : t \in TurnsIn(records[i].messages)
\* Unless two terminals wrote one record: a record is of one session, it holds
\* nothing its session does not have, and every turn is in some record.
SessionsKept ==
  sharedIds = {} =>
    /\ \A v, w \in OpenSession : sessions[v].id = sessions[w].id => v = w
    /\ \A w \in OpenSession : sessions[w].id \in DOMAIN records =>
         TurnsIn(records[sessions[w].id].messages) \subseteq Said(w) \cup givenUp
    /\ \A t \in 1 .. spoken : t \in givenUp \/ InRecord(t)

\* The turns of a transcript, of a longer one, and of one whose output is elided.
LEMMA TurnOf == ASSUME NEW m PROVE \A t : t \in TurnsIn(m) <=> t # 0 /\ \E k \in DOMAIN m : t = m[k].turn
  BY DEF TurnsIn

LEMMA OneTurnMore ==
  ASSUME NEW m \in Messages, NEW t \in Nat, t # 0
  PROVE  Append(m, Entry(t, TRUE)) \in Messages /\ TurnsIn(Append(m, Entry(t, TRUE))) = TurnsIn(m) \cup {t}
<1> DEFINE a == Append(m, Entry(t, TRUE))
<1>1. Entry(t, TRUE) \in EntryType /\ Entry(t, TRUE).turn = t
  BY DEF Entry, EntryType
<1>2. a \in Messages /\ Len(a) = Len(m) + 1 /\ a[Len(m) + 1].turn = t /\ \A k \in 1 .. Len(m) : a[k] = m[k]
  <2> DEFINE e == Entry(t, TRUE)
  <2> HIDE DEF e
  <2>1. e \in EntryType /\ e.turn = t /\ a = Append(m, e)
    BY <1>1 DEF e
  <2> HIDE DEF a
  <2> QED BY <2>1 DEF Messages
<1>3. DOMAIN a = 1 .. Len(m) + 1 /\ DOMAIN m = 1 .. Len(m) /\ Len(m) \in Nat
  BY <1>2 DEF Messages
<1> HIDE DEF a
<1>4. \A u : u \in TurnsIn(a) <=> u \in TurnsIn(m) \/ u = t
  <2> TAKE u
  <2>1. \A k : k \in DOMAIN a <=> k \in DOMAIN m \/ k = Len(m) + 1
    BY <1>3
  <2>2. (\E k \in DOMAIN a : u = a[k].turn) <=> (\E k \in DOMAIN m : u = m[k].turn) \/ u = t
    BY <1>2, <1>3, <2>1
  <2> QED BY <2>2, TurnOf
<1> QED BY <1>2, <1>4 DEF a

LEMMA ElidedTurns ==
  ASSUME NEW m \in Messages PROVE Elided(m) \in Messages /\ TurnsIn(Elided(m)) = TurnsIn(m)
<1>1. \A k \in DOMAIN m : [m[k] EXCEPT !.whole = FALSE] \in EntryType /\ [m[k] EXCEPT !.whole = FALSE].turn = m[k].turn
  <2> TAKE k \in DOMAIN m
  <2> DEFINE e == m[k]
  <2>1. e \in EntryType
    BY DEF Messages
  <2> HIDE DEF e
  <2>2. [e EXCEPT !.whole = FALSE] \in EntryType
    BY Zenon, <2>1 DEF EntryType
  <2>3. [e EXCEPT !.whole = FALSE].turn = e.turn
    BY <2>1 DEF EntryType
  <2> QED BY <2>2, <2>3 DEF e
<1>2. \A k \in DOMAIN m : Elided(m)[k] \in EntryType /\ Elided(m)[k].turn = m[k].turn
  BY <1>1 DEF Elided, Messages
<1>3. DOMAIN Elided(m) = DOMAIN m /\ Elided(m) = [k \in DOMAIN m |-> Elided(m)[k]]
  BY DEF Elided
<1>4. DOMAIN m = 1 .. Len(m) /\ Len(m) \in Nat
  BY DEF Messages
<1>5. Elided(m) \in Messages
  BY <1>2, <1>3, <1>4 DEF Messages
<1>6. \A t : t \in TurnsIn(Elided(m)) <=> t \in TurnsIn(m)
  BY <1>2, <1>3, TurnOf
<1> QED BY <1>5, <1>6

\* What is saved last is kept, and the others were saved before.
LEMMA KeptLast ==
  ASSUME NEW order \in Seq(Nat), NEW i \in Nat
  PROVE  LET new == Kept(Append(RemoveFirst(order, i), i))
         IN new \in Seq(Nat) /\ i \in ToSet(new) /\ ToSet(new) \subseteq ToSet(order) \cup {i}
<1> DEFINE less == RemoveFirst(order, i)
           more == Append(less, i)
           new == Kept(more)
<1>1. less \in Seq(Nat) /\ ToSet(less) \subseteq ToSet(order)
  <2>1. CASE \E k \in 1 .. Len(order) : order[k] = i
    <3> DEFINE I == {k \in 1 .. Len(order) : order[k] = i}
    <3>1. less = SubSeq(order, 1, Min(I) - 1) \o SubSeq(order, Min(I) + 1, Len(order))
      BY <2>1 DEF RemoveFirst, RemoveAt, SelectInSeq
    <3>2. Min(I) \in 1 .. Len(order)
      <4>1. I \in SUBSET Nat /\ I # {} /\ I \subseteq 1 .. Len(order)
        BY <2>1
      <4> HIDE DEF I
      <4> QED BY <4>1, LeastOf
    <3> DEFINE a == SubSeq(order, 1, Min(I) - 1)
               b == SubSeq(order, Min(I) + 1, Len(order))
    <3> HIDE DEF I
    <3>3. a \in Seq(Nat) /\ ToSet(a) \subseteq ToSet(order)
      BY <3>2 DEF ToSet
    <3>4. b \in Seq(Nat) /\ ToSet(b) \subseteq ToSet(order)
      BY SMTT(60), <3>2 DEF ToSet
    <3>5. less = a \o b
      BY <3>1
    <3> HIDE DEF a, b, less
    <3>6. a \o b \in Seq(Nat) /\ ToSet(a \o b) = ToSet(a) \cup ToSet(b)
      BY <3>3, <3>4, Joined
    <3> QED BY <3>3, <3>4, <3>5, <3>6
  <2>2. CASE ~ \E k \in 1 .. Len(order) : order[k] = i
    <3>1. less = order
      BY <2>2 DEF RemoveFirst
    <3> QED BY <3>1
  <2> QED BY <2>1, <2>2
<1> HIDE DEF less
<1>2. more \in Seq(Nat) /\ ToSet(more) = ToSet(less) \cup {i}
  BY <1>1, Added
<1>3. Len(more) \in Nat /\ Len(more) >= 1 /\ more[Len(more)] = i /\ DOMAIN more = 1 .. Len(more)
  BY <1>1
<1> HIDE DEF more
<1>4. new \in Seq(Nat) /\ i \in ToSet(new) /\ ToSet(new) \subseteq ToSet(more)
  <2>0. KEEP_SESSIONS \in Nat \ {0}
    BY TerminalAssumption
  <2>1. CASE Len(more) > KEEP_SESSIONS
    <3> DEFINE f == Len(more) - KEEP_SESSIONS + 1
    <3>1. new = SubSeq(more, f, Len(more)) /\ f \in 1 .. Len(more)
      BY <1>3, <2>0, <2>1 DEF Kept
    <3> HIDE DEF f
    <3>2. new \in Seq(Nat) /\ Len(new) = Len(more) - f + 1 /\ \A k \in 1 .. Len(new) : new[k] = more[f + k - 1]
      <4> HIDE DEF new
      <4> QED BY SMTT(60), <1>2, <1>3, <3>1
    <3> HIDE DEF new
    <3>3. DOMAIN new = 1 .. Len(new) /\ Len(new) \in 1 .. Len(new) /\ f + Len(new) - 1 = Len(more)
      BY <1>3, <3>1, <3>2
    <3>4. i \in ToSet(new)
      BY <1>3, <3>2, <3>3 DEF ToSet
    <3>5. \A k \in 1 .. Len(new) : f + k - 1 \in DOMAIN more
      BY <1>3, <3>1, <3>2
    <3> QED BY <3>2, <3>3, <3>4, <3>5 DEF ToSet
  <2>2. CASE ~(Len(more) > KEEP_SESSIONS)
    BY <1>2, <2>2 DEF Kept
  <2> QED BY <2>1, <2>2
<1>5. ToSet(new) \subseteq ToSet(order) \cup {i}
  BY <1>1, <1>2, <1>4
<1> QED BY <1>4, <1>5 DEF more, less

CheckpointType == [turn : Nat, messages : Messages, taken : Messages]

\* What changes some fields of a session leaves the others.
LEMMA NewMessages ==
  ASSUME NEW s \in SessionType, NEW m \in Messages, NEW x, x = [s EXCEPT !.messages = m]
  PROVE  x \in SessionType /\ x.id = s.id /\ x.messages = m /\ x.checkpoints = s.checkpoints
<1>1. x \in SessionType
  BY Zenon DEF SessionType, CheckpointType
<1>2. DOMAIN s = {"id", "messages", "turns", "checkpoints"}
  BY DEF SessionType
<1>3. x.id = s.id /\ x.messages = m /\ x.checkpoints = s.checkpoints
  BY <1>2
<1> QED BY <1>1, <1>3

WithTurns(s, m, n) == [s EXCEPT !.messages = m, !.turns = n]
WithId(s, m, n, i) == [s EXCEPT !.messages = m, !.id = i, !.turns = n]

LEMMA NewTurns ==
  ASSUME NEW s \in SessionType, NEW m \in Messages, NEW n \in Nat, NEW x, x = WithTurns(s, m, n)
  PROVE  x \in SessionType /\ x.id = s.id /\ x.messages = m /\ x.turns = n /\ x.checkpoints = s.checkpoints
<1>1. x \in SessionType
  BY Zenon DEF SessionType, CheckpointType, WithTurns
<1>2. DOMAIN s = {"id", "messages", "turns", "checkpoints"}
  BY DEF SessionType
<1>3. x.id = s.id /\ x.messages = m /\ x.turns = n /\ x.checkpoints = s.checkpoints
  BY <1>2 DEF WithTurns
<1> QED BY <1>1, <1>3

LEMMA NewId ==
  ASSUME NEW s \in SessionType, NEW m \in Messages, NEW n \in Nat, NEW i \in Nat, NEW x, x = WithId(s, m, n, i)
  PROVE  x \in SessionType /\ x.id = i /\ x.messages = m /\ x.checkpoints = s.checkpoints
<1>1. x \in SessionType
  BY Zenon DEF SessionType, CheckpointType, WithId
<1>2. DOMAIN s = {"id", "messages", "turns", "checkpoints"}
  BY DEF SessionType
<1>3. x.id = i /\ x.messages = m /\ x.checkpoints = s.checkpoints
  BY <1>2 DEF WithId
<1> QED BY <1>1, <1>3

LEMMA NewCheckpoints ==
  ASSUME NEW s \in SessionType, NEW c \in Seq(CheckpointType), NEW x, x = [s EXCEPT !.checkpoints = c]
  PROVE  x \in SessionType /\ x.id = s.id /\ x.messages = s.messages /\ x.checkpoints = c
<1>1. x \in SessionType
  BY Zenon DEF SessionType, CheckpointType
<1>2. DOMAIN s = {"id", "messages", "turns", "checkpoints"}
  BY DEF SessionType
<1>3. x.id = s.id /\ x.messages = s.messages /\ x.checkpoints = c
  BY <1>2
<1> QED BY <1>1, <1>3

\* A step that changes one conversation under its id, and gives up what it drops.
LEMMA PutKeeps ==
  ASSUME SessionsTyped, SessionsKept, NEW w \in Terminals, NEW s \in SessionType,
         Put(w, s), Intact(s), s.id = sessions[w].id, UNCHANGED <<records, saves, ids, spoken, sharedIds>>,
         givenUp \subseteq givenUp', Said(w) \subseteq TurnsIn(s.messages) \cup givenUp'
  PROVE  SessionsTyped' /\ SessionsKept'
<1>1. /\ sessions' \in [Terminals -> SessionType] /\ sessions'[w] = s /\ \A v \in Terminals \ {w} : sessions'[v] = sessions[v]
  BY DEF Put, SessionsTyped
<1>2. SessionsTyped'
  BY <1>1 DEF SessionsTyped
<1>3. \A v \in Terminals : sessions'[v].id = sessions[v].id /\ (v \in OpenSession' <=> v \in OpenSession)
  BY <1>1 DEF OpenSession
<1>4. \A v \in Terminals : Said(v) \subseteq Said(v)' \cup givenUp'
  <2> TAKE v \in Terminals
  <2>1. CASE v = w
    BY <1>1, <2>1 DEF Said, TurnsIn
  <2>2. CASE v # w
    BY <1>1, <2>2 DEF Said, TurnsIn
  <2> QED BY <2>1, <2>2
<1>5. SessionsKept'
  <2> SUFFICES ASSUME sharedIds' = {} PROVE SessionsKept'
    BY DEF SessionsKept
  <2>1. \A v \in OpenSession : v \in Terminals
    BY DEF OpenSession
  <2>2. \A u, v \in OpenSession' : sessions'[u].id = sessions'[v].id => u = v
    BY <1>3, <2>1 DEF SessionsKept, OpenSession
  <2>3. \A v \in OpenSession' : sessions'[v].id \in DOMAIN records' =>
         TurnsIn(records[sessions'[v].id].messages) \subseteq Said(v)' \cup givenUp'
    <3> TAKE v \in OpenSession'
    <3>1. v \in OpenSession /\ v \in Terminals /\ sessions'[v].id = sessions[v].id
      BY <1>3 DEF OpenSession
    <3>2. sessions[v].id \in DOMAIN records => TurnsIn(records[sessions[v].id].messages) \subseteq Said(v) \cup givenUp
      BY <3>1 DEF SessionsKept
    <3> QED BY <1>4, <3>1, <3>2
  <2>4. \A t \in 1 .. spoken' : t \in givenUp' \/ InRecord(t)'
    BY DEF SessionsKept, InRecord, TurnsIn
  <2>5. \A v : TurnsIn(records[v].messages)' = TurnsIn(records[v].messages)
    BY DEF TurnsIn
  <2> QED BY <2>2, <2>3, <2>4, <2>5 DEF SessionsKept
<1> QED BY <1>2, <1>5

LEMMA OpenKeeps ==
  ASSUME SessionsTyped, SessionsKept, NEW w \in Terminals, OpenTerminal(w)
  PROVE  SessionsTyped' /\ SessionsKept'
<1>1. PICK i \in NewIds : Put(w, [Closed EXCEPT !.id = i]) /\ Holds(w, i) /\ ids' = Max({ids, i})
  BY Zenon DEF OpenTerminal
<1>2. sessions[w].id = 0 /\ UNCHANGED <<givenUp, records, saves, spoken>>
  BY DEF OpenTerminal, NotGivenUp, Unsaved
<1> DEFINE s == [id |-> i, messages |-> <<>>, turns |-> 0, checkpoints |-> <<>>]
<1>3. i \in {ids, ids + 1} /\ i \in Nat /\ ids \in Nat /\ ids' = i
  <2>1. ids \in Nat /\ i \in {ids, ids + 1}
    BY DEF NewIds, SessionsTyped
  <2>2. i \in Nat /\ i \in Int /\ ids \in Int
    BY <2>1
  <2> QED BY <1>1, <2>1, <2>2, Extremes
<1>4. s \in SessionType /\ Intact(s)
  BY <1>3 DEF SessionType, Messages, Intact
<1>5. sessions' \in [Terminals -> SessionType] /\ sessions'[w] = s /\ \A v \in Terminals \ {w} : sessions'[v] = sessions[v]
  <2>1. [Closed EXCEPT !.id = i] = s
    BY DEF Closed
  <2> HIDE DEF s
  <2> QED BY <1>1, <1>4, <2>1 DEF Put, SessionsTyped
<1>6. SessionsTyped'
  <2>1. ids =< ids'
    BY <1>3
  <2>2. \A v \in Terminals : sessions'[v].id =< ids' /\ Intact(sessions'[v])
    <3>1. \A v \in Terminals : sessions[v] \in SessionType /\ Intact(sessions[v]) /\ sessions[v].id =< ids
      BY DEF SessionsTyped
    <3>2. \A v \in Terminals : sessions[v].id \in Nat
      BY <3>1 DEF SessionType
    <3>3. s.id = i
      OBVIOUS
    <3> HIDE DEF s
    <3> QED BY <1>3, <1>4, <1>5, <2>1, <3>1, <3>2, <3>3
  <2>3. saves' \in Seq(Nat) /\ DOMAIN records' = ToSet(saves') /\ spoken' \in Nat /\ ids' \in Nat
    BY <1>2, <1>3 DEF SessionsTyped
  <2>4. \A j \in DOMAIN records' : j \in Nat /\ j =< ids' /\ records'[j] \in RecordType
    BY <1>2, <1>3, <2>1 DEF SessionsTyped
  <2> QED BY Zenon, <1>5, <2>2, <2>3, <2>4 DEF SessionsTyped, Intact
<1>7. sharedIds' = sharedIds \cup (IF \E v \in OpenSession \ {w} : sessions[v].id = i THEN {i} ELSE {})
  BY <1>1 DEF Holds
<1>8. SessionsKept'
  <2> SUFFICES ASSUME sharedIds' = {} PROVE SessionsKept'
    BY DEF SessionsKept
  <2>1. sharedIds = {} /\ \A v \in OpenSession \ {w} : sessions[v].id # i
    BY <1>7
  <2>2. i = ids + 1
    <3>1. CASE i \in {sessions[v].id : v \in {u \in OpenSession : sessions[u].id = ids /\ sessions[u].turns = 0}}
      <4>1. PICK v \in OpenSession : i = sessions[v].id
        BY <3>1
      <4> QED BY <1>2, <2>1, <4>1 DEF OpenSession
    <3> QED BY <1>1, <3>1 DEF NewIds
  <2>3. \A v \in Terminals : sessions[v].id # i /\ sessions[v].id \in Nat
    BY <1>3, <2>2 DEF SessionsTyped, SessionType
  <2>4. i \notin DOMAIN records
    BY <1>3, <2>2 DEF SessionsTyped
  <2>5. \A v \in OpenSession' \ {w} : v \in OpenSession /\ v \in Terminals /\ sessions'[v] = sessions[v]
    BY <1>5 DEF OpenSession
  <2>6. \A u, v \in OpenSession' : sessions'[u].id = sessions'[v].id => u = v
    <3>1. sessions'[w].id = i
      BY <1>5
    <3> QED BY <2>1, <2>3, <2>5, <3>1 DEF SessionsKept
  <2>7. \A v \in OpenSession' : sessions'[v].id \in DOMAIN records' =>
         TurnsIn(records'[sessions'[v].id].messages) \subseteq TurnsIn(sessions'[v].messages) \cup givenUp'
    <3>1. sessions'[w].id = i
      BY <1>5
    <3> QED BY <1>2, <2>1, <2>4, <2>5, <3>1 DEF SessionsKept, Said
  <2>8. \A t \in 1 .. spoken' : t \in givenUp' \/ InRecord(t)'
    BY <1>2, <2>1 DEF SessionsKept, InRecord, TurnsIn
  <2> QED BY <2>6, <2>7, <2>8 DEF SessionsKept, Said, TurnsIn
<1> QED BY <1>6, <1>8

LEMMA ResumeKeeps ==
  ASSUME SessionsTyped, SessionsKept, NEW w \in Terminals, ResumeRecord(w)
  PROVE  SessionsTyped' /\ SessionsKept'
<1>1. PICK i \in Listing \ {sessions[w].id} : Put(w, Resumed(sessions[w], i)) /\ Holds(w, i)
  BY Zenon DEF ResumeRecord
<1>2. sessions[w].id # 0 /\ UNCHANGED <<givenUp, records, saves, spoken, ids>>
  BY DEF ResumeRecord, NotGivenUp, Unsaved
<1>3. i \in DOMAIN records /\ i \in Nat /\ i =< ids /\ records[i].messages \in Messages /\ records[i].turns \in Nat
  BY DEF Listing, SessionsTyped, ToSet, RecordType
<1> DEFINE s == Resumed(sessions[w], i)
<1>4. s \in SessionType /\ s.id = i /\ s.messages = records[i].messages /\ s.checkpoints = sessions[w].checkpoints
  <2>1. sessions[w] \in SessionType
    BY DEF SessionsTyped
  <2>2. <<>> \in Seq(CheckpointType)
    OBVIOUS
  <2> DEFINE z == sessions[w]
             m == records[i].messages
             n == records[i].turns
  <2>3. s = WithId(z, m, n, i)
    BY DEF Resumed, WithId
  <2>4. z \in SessionType /\ m \in Messages /\ n \in Nat /\ i \in Nat
    BY <1>3, <2>1
  <2> HIDE DEF z, m, n, s
  <2>5. s \in SessionType /\ s.id = i /\ s.messages = m /\ s.checkpoints = z.checkpoints
    BY <2>3, <2>4, NewId
  <2> QED BY <2>5 DEF z, m
<1>5. Intact(s)
  BY <1>4 DEF SessionsTyped, Intact
<1> HIDE DEF s
<1>6. sessions' \in [Terminals -> SessionType] /\ sessions'[w] = s /\ \A v \in Terminals \ {w} : sessions'[v] = sessions[v]
  BY <1>1, <1>4 DEF Put, SessionsTyped, s
<1>7. SessionsTyped'
  BY <1>2, <1>3, <1>4, <1>5, <1>6 DEF SessionsTyped
<1>8. sharedIds' = sharedIds \cup (IF \E v \in OpenSession \ {w} : sessions[v].id = i THEN {i} ELSE {})
  BY <1>1 DEF Holds
<1>9. SessionsKept'
  <2> SUFFICES ASSUME sharedIds' = {} PROVE SessionsKept'
    BY DEF SessionsKept
  <2>1. sharedIds = {} /\ \A v \in OpenSession \ {w} : sessions[v].id # i
    BY <1>8
  <2>2. \A v \in OpenSession' \ {w} : v \in OpenSession \ {w} /\ sessions'[v] = sessions[v]
    BY <1>6 DEF OpenSession
  <2>3. \A u, v \in OpenSession' : sessions'[u].id = sessions'[v].id => u = v
    BY <1>4, <1>6, <2>1, <2>2 DEF SessionsKept
  <2>4. \A v \in OpenSession' : sessions'[v].id \in DOMAIN records' =>
         TurnsIn(records'[sessions'[v].id].messages) \subseteq TurnsIn(sessions'[v].messages) \cup givenUp'
    BY <1>2, <1>4, <1>6, <2>1, <2>2 DEF SessionsKept, Said
  <2>5. \A t \in 1 .. spoken' : t \in givenUp' \/ InRecord(t)'
    BY <1>2, <2>1 DEF SessionsKept, InRecord, TurnsIn
  <2> QED BY <2>3, <2>4, <2>5 DEF SessionsKept, Said, TurnsIn
<1> QED BY <1>7, <1>9

LEMMA LeaveKeeps ==
  ASSUME SessionsTyped, SessionsKept, NEW w \in Terminals, Leave(w)
  PROVE  SessionsTyped' /\ SessionsKept'
<1>1. UNCHANGED <<givenUp, records, saves, spoken, ids, sharedIds>> /\ Put(w, Closed)
  BY DEF Leave, NotGivenUp, Unsaved
<1>2. Closed \in SessionType /\ Intact(Closed) /\ Closed.id = 0
  BY DEF Closed, SessionType, Messages, Intact
<1>3. sessions' \in [Terminals -> SessionType] /\ sessions'[w] = Closed /\ \A v \in Terminals \ {w} : sessions'[v] = sessions[v]
  BY <1>1, <1>2 DEF Put, SessionsTyped
<1>4. SessionsTyped'
  <2>1. ids \in Nat
    BY DEF SessionsTyped
  <2> QED BY <1>1, <1>2, <1>3, <2>1 DEF SessionsTyped
<1>5. SessionsKept'
  <2> SUFFICES ASSUME sharedIds' = {} PROVE SessionsKept'
    BY DEF SessionsKept
  <2>2. \A v \in OpenSession' : v \in OpenSession /\ sessions'[v] = sessions[v]
    BY <1>2, <1>3 DEF OpenSession
  <2>3. \A u, v \in OpenSession' : sessions'[u].id = sessions'[v].id => u = v
    BY <1>1, <2>2 DEF SessionsKept
  <2>4. \A v \in OpenSession' : sessions'[v].id \in DOMAIN records' =>
         TurnsIn(records'[sessions'[v].id].messages) \subseteq TurnsIn(sessions'[v].messages) \cup givenUp'
    BY <1>1, <2>2 DEF SessionsKept, Said
  <2>5. \A t \in 1 .. spoken' : t \in givenUp' \/ InRecord(t)'
    BY <1>1 DEF SessionsKept, InRecord, TurnsIn
  <2> QED BY <2>3, <2>4, <2>5 DEF SessionsKept, Said, TurnsIn
<1> QED BY <1>4, <1>5

\* A turn said: its session's record is saved, and the oldest may go.
LEMMA SayKeeps ==
  ASSUME SessionsTyped, SessionsKept, NEW w \in Terminals, SayTurn(w)
  PROVE  SessionsTyped' /\ SessionsKept'
<1> DEFINE t == spoken + 1
           m == Append(sessions[w].messages, Entry(t, TRUE))
           s == [sessions[w] EXCEPT !.messages = m, !.turns = sessions[w].turns + 1]
           i == sessions[w].id
           kept == Kept(Append(RemoveFirst(saves, i), i))
<1>1. /\ sessions[w].id # 0 /\ spoken' = t /\ UNCHANGED <<ids, sharedIds>>
      /\ Put(w, s) /\ SaveRecord(w, s)
  BY DEF SayTurn
<1>2. sessions[w] \in SessionType /\ Intact(sessions[w]) /\ i =< ids /\ ids \in Nat /\ i \in Nat
  BY DEF SessionsTyped, SessionType
<1>3. t \in Nat /\ t # 0 /\ spoken \in Nat
  BY DEF SessionsTyped
<1>4. m \in Messages /\ TurnsIn(m) = Said(w) \cup {t}
  <2>1. sessions[w].messages \in Messages
    BY <1>2 DEF SessionType
  <2> HIDE DEF t
  <2> QED BY <1>3, <2>1, OneTurnMore DEF Said
<1>5. s \in SessionType /\ s.id = i /\ s.messages = m /\ s.checkpoints = sessions[w].checkpoints /\ s.turns \in Nat
  <2> DEFINE z == sessions[w]
             n == sessions[w].turns + 1
  <2>1. z \in SessionType /\ n \in Nat /\ <<>> \in Seq(CheckpointType)
    BY <1>2 DEF SessionType
  <2>2. s = WithTurns(z, m, n)
    BY DEF WithTurns
  <2>3. z.id = i
    OBVIOUS
  <2> HIDE DEF m, s, i, n
  <2>4. s \in SessionType /\ s.id = z.id /\ s.messages = m /\ s.turns = n /\ s.checkpoints = z.checkpoints
    <3> HIDE DEF z
    <3> QED BY <1>4, <2>1, <2>2, NewTurns
  <2> QED BY <2>1, <2>3, <2>4
<1>6. Intact(s)
  BY <1>2, <1>5 DEF Intact
<1> HIDE DEF s
<1>7. /\ saves' = kept
      /\ records' = [j \in ToSet(kept) |-> IF j = i THEN [messages |-> m, turns |-> s.turns] ELSE records[j]]
      /\ givenUp' = givenUp \cup UNION {TurnsIn(records[j].messages) : j \in (DOMAIN records \ ToSet(kept)) \ {i}}
  <2>1. SaveRecord(w, s) /\ s.id = i /\ s.messages = m
    BY <1>1, <1>5
  <2> HIDE DEF i, m
  <2>2. /\ saves' = Kept(Append(RemoveFirst(saves, s.id), s.id))
        /\ records' = [j \in ToSet(Kept(Append(RemoveFirst(saves, s.id), s.id))) |-> IF j = s.id THEN [messages |-> s.messages, turns |-> s.turns] ELSE records[j]]
        /\ givenUp' = givenUp \cup UNION {TurnsIn(records[j].messages) : j \in (DOMAIN records \ ToSet(Kept(Append(RemoveFirst(saves, s.id), s.id)))) \ {s.id}}
    BY Zenon, <2>1 DEF SaveRecord, GivesUp
  <2> QED BY Zenon, <2>1, <2>2
<1>8. kept \in Seq(Nat) /\ i \in ToSet(kept) /\ ToSet(kept) \subseteq DOMAIN records \cup {i}
  <2>1. saves \in Seq(Nat) /\ DOMAIN records = ToSet(saves)
    BY DEF SessionsTyped
  <2> HIDE DEF i
  <2> QED BY <1>2, <2>1, KeptLast
<1> HIDE DEF kept
<1>9. sessions' \in [Terminals -> SessionType] /\ sessions'[w] = s /\ \A v \in Terminals \ {w} : sessions'[v] = sessions[v]
  BY <1>1, <1>5 DEF Put, SessionsTyped
<1>10. /\ DOMAIN records' = ToSet(kept) /\ records'[i] = [messages |-> m, turns |-> s.turns]
       /\ \A j \in DOMAIN records' \ {i} : j \in DOMAIN records /\ records'[j] = records[j]
  <2> HIDE DEF i, m
  <2> QED BY <1>7, <1>8
<1>11. records'[i] \in RecordType /\ records'[i].messages = m
  <2> HIDE DEF i, m
  <2> QED BY <1>4, <1>5, <1>10 DEF RecordType
<1>12. SessionsTyped'
  <2>1. \A j \in DOMAIN records' : j \in Nat /\ j =< ids' /\ records'[j] \in RecordType
    <3> HIDE DEF i, m
    <3> QED BY <1>1, <1>2, <1>10, <1>11 DEF SessionsTyped
  <2>2. \A v \in Terminals : Intact(sessions'[v]) /\ sessions'[v].id =< ids'
    <3> HIDE DEF m
    <3> QED BY <1>1, <1>2, <1>5, <1>6, <1>9 DEF SessionsTyped
  <2>3. saves' \in Seq(Nat) /\ DOMAIN records' = ToSet(saves') /\ ids' \in Nat /\ spoken' \in Nat
    <3> HIDE DEF t, i
    <3> QED BY <1>1, <1>2, <1>3, <1>7, <1>8, <1>10
  <2> QED BY Zenon, <1>9, <2>1, <2>2, <2>3 DEF SessionsTyped, Intact
<1>13. SessionsKept'
  <2> SUFFICES ASSUME sharedIds' = {} PROVE SessionsKept'
    BY DEF SessionsKept
  <2>0. sharedIds = {} /\ w \in OpenSession /\ givenUp \subseteq givenUp'
    BY <1>1, <1>7 DEF OpenSession
  <2>1. \A v \in OpenSession' \ {w} : v \in OpenSession \ {w} /\ sessions'[v] = sessions[v]
    BY <1>9 DEF OpenSession
  <2>2. sessions'[w].id = i /\ sessions'[w].messages = m /\ \A v \in OpenSession \ {w} : sessions[v].id # i
    <3>1. \A v \in OpenSession \ {w} : sessions[v].id # sessions[w].id
      BY <2>0 DEF SessionsKept
    <3> QED BY <1>5, <1>9, <3>1
  <2>3. \A u, v \in OpenSession' : sessions'[u].id = sessions'[v].id => u = v
    <3> HIDE DEF i, m
    <3> QED BY <2>0, <2>1, <2>2 DEF SessionsKept
  <2>4. \A v \in OpenSession' : sessions'[v].id \in DOMAIN records' =>
         TurnsIn(records'[sessions'[v].id].messages) \subseteq TurnsIn(sessions'[v].messages) \cup givenUp'
    <3> TAKE v \in OpenSession'
    <3> HAVE sessions'[v].id \in DOMAIN records'
    <3>1. CASE v = w
      BY Zenon, <1>11, <2>2, <3>1
    <3>2. CASE v # w
      <4>1. v \in OpenSession /\ sessions'[v] = sessions[v] /\ sessions[v].id # i
        BY <2>1, <2>2, <3>2
      <4>2. sessions[v].id \in DOMAIN records /\ records'[sessions[v].id] = records[sessions[v].id]
        <5> HIDE DEF i
        <5> QED BY <1>10, <4>1
      <4>3. TurnsIn(records[sessions[v].id].messages) \subseteq Said(v) \cup givenUp
        BY <2>0, <4>1, <4>2 DEF SessionsKept
      <4> QED BY <2>0, <4>1, <4>2, <4>3 DEF Said
    <3> QED BY <3>1, <3>2
  <2>5. \A u \in 1 .. spoken' : u \in givenUp' \/ \E j \in DOMAIN records' : u \in TurnsIn(records'[j].messages)
    <3> TAKE u \in 1 .. spoken'
    <3>1. u = t \/ u \in 1 .. spoken
      BY <1>1, <1>3
    <3>2. u \in Said(w) \/ u = t => u \in TurnsIn(records'[i].messages) /\ i \in DOMAIN records'
      <4> HIDE DEF i, m, t
      <4> QED BY <1>4, <1>8, <1>10, <1>11
    <3>3. ASSUME u \in 1 .. spoken, u \notin givenUp
          PROVE  u \in givenUp' \/ \E j \in DOMAIN records' : u \in TurnsIn(records'[j].messages)
      <4>1. PICK j \in DOMAIN records : u \in TurnsIn(records[j].messages)
        BY <2>0, <3>3 DEF SessionsKept, InRecord
      <4>2. CASE j = i
        <5>1. u \in Said(w)
          BY <2>0, <3>3, <4>1, <4>2 DEF SessionsKept
        <5> QED BY <3>2, <5>1
      <4>3. CASE j # i /\ j \in ToSet(kept)
        <5> HIDE DEF i, m
        <5> QED BY <1>10, <4>1, <4>3
      <4>4. CASE j # i /\ j \notin ToSet(kept)
        <5> HIDE DEF i, m
        <5>1. u \in UNION {TurnsIn(records[k].messages) : k \in (DOMAIN records \ ToSet(kept)) \ {i}}
          BY <4>1, <4>4
        <5> QED BY <1>7, <5>1
      <4> QED BY <4>2, <4>3, <4>4
    <3> HIDE DEF i, m, t
    <3> QED BY <2>0, <3>1, <3>2, <3>3
  <2> QED BY Zenon, <2>3, <2>4, <2>5 DEF SessionsKept, Said, TurnsIn, InRecord
<1> QED BY <1>12, <1>13

\* What a step of a conversation that is not saved keeps.
LEMMA EditKeeps ==
  ASSUME SessionsTyped, SessionsKept, NEW w \in Terminals,
         Clear(w) \/ CompactContext(w) \/ Checkpoint(w) \/ \E k \in 1 .. MaxCheckpoints : Restore(w, k)
  PROVE  SessionsTyped' /\ SessionsKept'
<1> DEFINE z == sessions[w]
           Fine(s) == s \in SessionType /\ Intact(s) /\ s.id = z.id /\ Put(w, s) /\ Said(w) \subseteq TurnsIn(s.messages) \cup givenUp'
<1>1. UNCHANGED <<records, saves, ids, spoken, sharedIds>>
  BY DEF Clear, CompactContext, Checkpoint, Restore, Unsaved
<1>2. givenUp \subseteq givenUp'
  BY DEF Clear, CompactContext, Checkpoint, Restore, GivesUp, NotGivenUp
<1>3. ASSUME NEW s, Fine(s) PROVE SessionsTyped' /\ SessionsKept'
  BY <1>1, <1>2, <1>3, PutKeeps
<1>4. z \in SessionType /\ Intact(z) /\ z.messages \in Messages /\ z.turns \in Nat /\ z.id \in Nat /\ z.checkpoints \in Seq(CheckpointType)
  BY DEF SessionsTyped, SessionType, CheckpointType
<1>5. Said(w) = TurnsIn(z.messages)
  BY DEF Said
<1>6. ASSUME NEW m \in Messages
      PROVE  LET s == [z EXCEPT !.messages = m]
             IN s \in SessionType /\ Intact(s) /\ s.id = z.id /\ s.messages = m
  <2> DEFINE s == [z EXCEPT !.messages = m]
  <2> HIDE DEF z
  <2>1. s \in SessionType /\ s.id = z.id /\ s.messages = m /\ s.checkpoints = z.checkpoints
    BY <1>4, NewMessages
  <2> QED BY <1>4, <2>1 DEF Intact
<1>7. CASE Clear(w)
  <2> DEFINE s == [z EXCEPT !.messages = <<>>]
  <2>1. Put(w, s) /\ givenUp' = givenUp \cup Said(w)
    BY <1>7 DEF Clear, GivesUp
  <2>2. <<>> \in Messages
    BY DEF Messages
  <2>3. s \in SessionType /\ Intact(s) /\ s.id = z.id
    BY <1>6, <2>2
  <2>4. Fine(s)
    <3> HIDE DEF s, z
    <3> QED BY <2>1, <2>3
  <2> QED BY Zenon, <1>3, <2>4
<1>8. CASE CompactContext(w)
  <2> DEFINE s == [z EXCEPT !.messages = Elided(z.messages)]
             n == Len(s.messages)
             p == [s EXCEPT !.messages = <<s.messages[1], Entry(0, TRUE), s.messages[n]>>]
  <2>1. \/ Put(w, s)
        \/ n > 2 /\ Put(w, p) /\ givenUp' = givenUp \cup Said(w)
    BY <1>8 DEF CompactContext, ElidedIn, GivesUp
  <2>2. Elided(z.messages) \in Messages /\ TurnsIn(Elided(z.messages)) = TurnsIn(z.messages)
    BY <1>4, ElidedTurns
  <2>3. s \in SessionType /\ Intact(s) /\ s.id = z.id /\ s.messages = Elided(z.messages)
    BY <1>6, <2>2
  <2>4. CASE Put(w, s)
    <3>1. Fine(s)
      <4> HIDE DEF s, z
      <4> QED BY <1>5, <2>2, <2>3, <2>4
    <3> QED BY Zenon, <1>3, <3>1
  <2>5. CASE n > 2 /\ Put(w, p) /\ givenUp' = givenUp \cup Said(w)
    <3> DEFINE m == <<s.messages[1], Entry(0, TRUE), s.messages[n]>>
    <3>1. m \in Messages
      <4>1. s.messages[1] \in EntryType /\ s.messages[n] \in EntryType /\ Entry(0, TRUE) \in EntryType
        <5> DEFINE a == s.messages
        <5>1. a \in Seq(EntryType) /\ n = Len(a) /\ n > 2
          BY <2>2, <2>3, <2>5 DEF Messages
        <5> HIDE DEF a, n
        <5>2. a[1] \in EntryType /\ a[n] \in EntryType
          BY <5>1
        <5>3. Entry(0, TRUE) \in EntryType
          BY DEF Entry, EntryType
        <5> QED BY <5>2, <5>3 DEF a
      <4> DEFINE a == s.messages[1]
                 b == s.messages[n]
                 e == Entry(0, TRUE)
      <4> HIDE DEF a, b, e
      <4>2. a \in EntryType /\ b \in EntryType /\ e \in EntryType
        BY <4>1 DEF a, b, e
      <4>3. <<a, e, b>> \in Seq(EntryType)
        BY <4>2
      <4> QED BY <4>3 DEF Messages, a, b, e
    <3>2. p = [z EXCEPT !.messages = m]
      <4>1. DOMAIN z = {"id", "messages", "turns", "checkpoints"} /\ z = [f \in DOMAIN z |-> z[f]]
        BY <1>4 DEF SessionType
      <4> HIDE DEF z, m
      <4>2. [[z EXCEPT !.messages = Elided(z.messages)] EXCEPT !.messages = m] = [z EXCEPT !.messages = m]
        BY <4>1
      <4> QED BY <4>2 DEF m
    <3>3. p \in SessionType /\ Intact(p) /\ p.id = z.id
      <4> HIDE DEF z, m, p
      <4> QED BY <1>6, <3>1, <3>2
    <3>4. Fine(p)
      <4> HIDE DEF p, z
      <4> QED BY <2>5, <3>3
    <3> QED BY Zenon, <1>3, <3>4
  <2> QED BY <2>1, <2>4, <2>5
<1>9. CASE Checkpoint(w)
  <2> DEFINE e == [turn |-> z.turns, messages |-> z.messages, taken |-> z.messages]
             c == Append(z.checkpoints, e)
             s == [z EXCEPT !.checkpoints = c]
  <2>1. Put(w, s)
    BY <1>9 DEF Checkpoint
  <2>2. e \in CheckpointType /\ e.messages = e.taken
    BY <1>4 DEF CheckpointType
  <2> HIDE DEF e
  <2>3. c \in Seq(CheckpointType) /\ \A j \in DOMAIN c : c[j].messages = c[j].taken
    <3>1. \A j \in DOMAIN z.checkpoints : z.checkpoints[j].messages = z.checkpoints[j].taken
      BY <1>4 DEF Intact
    <3> DEFINE old == z.checkpoints
    <3>2. old \in Seq(CheckpointType) /\ \A j \in DOMAIN old : old[j].messages = old[j].taken
      BY <1>4, <3>1
    <3> HIDE DEF old
    <3>3. Append(old, e) \in Seq(CheckpointType) /\ \A j \in DOMAIN Append(old, e) : Append(old, e)[j] = e \/ (j \in DOMAIN old /\ Append(old, e)[j] = old[j])
      BY <2>2, <3>2
    <3> QED BY <2>2, <3>2, <3>3 DEF old
  <2>4. s \in SessionType /\ s.id = z.id /\ s.messages = z.messages /\ s.checkpoints = c
    <3> HIDE DEF z, c
    <3> QED BY <1>4, <2>3, NewCheckpoints
  <2>5. Fine(s)
    <3> HIDE DEF z, c, s
    <3> QED BY <1>5, <2>1, <2>3, <2>4 DEF Intact
  <2> QED BY Zenon, <1>3, <2>5
<1>10. ASSUME NEW k \in 1 .. MaxCheckpoints, Restore(w, k) PROVE SessionsTyped' /\ SessionsKept'
  <2> DEFINE old == z.checkpoints
             m == old[k].messages
             n == old[k].turn
             s == [z EXCEPT !.messages = m, !.turns = n]
             c == SubSeq(old, 1, k - 1)
             p == [s EXCEPT !.checkpoints = c]
  <2>1. k \in DOMAIN old /\ Said(w) \subseteq givenUp' /\ (Put(w, s) \/ Put(w, p))
    <3>1. \/ Put(w, s) /\ givenUp' = givenUp \cup Said(w)
          \/ /\ Put(w, [s EXCEPT !.checkpoints = SubSeq(@, 1, k - 1)])
             /\ givenUp' = givenUp \cup (Said(w) \cup UNION {TurnsIn(z.checkpoints[j].messages) : j \in k + 1 .. Len(z.checkpoints)})
      BY ZenonT(60), <1>10 DEF Restore, Rewound, GivesUp
    <3>2. s.checkpoints = old
      <4>1. DOMAIN z = {"id", "messages", "turns", "checkpoints"}
        BY <1>4 DEF SessionType
      <4> HIDE DEF z, m, n
      <4> QED BY <4>1
    <3>3. k \in DOMAIN old
      BY <1>10 DEF Restore
    <3> HIDE DEF s, old
    <3> QED BY <3>1, <3>2, <3>3
  <2>2. old \in Seq(CheckpointType) /\ k \in 1 .. Len(old) /\ \A j \in DOMAIN old : old[j].messages = old[j].taken
    BY <1>4, <2>1 DEF Intact
  <2>3. m \in Messages /\ n \in Nat
    <3> HIDE DEF old
    <3>1. old[k] \in CheckpointType
      BY <2>2
    <3> QED BY <3>1 DEF CheckpointType
  <2>4. c \in Seq(CheckpointType) /\ \A j \in DOMAIN c : c[j].messages = c[j].taken
    <3> HIDE DEF old
    <3>1. c \in Seq(CheckpointType) /\ \A j \in DOMAIN c : j \in DOMAIN old /\ c[j] = old[j]
      BY <2>2
    <3> QED BY <2>2, <3>1
  <2> HIDE DEF m, n, c
  <2>5. s \in SessionType /\ s.id = z.id /\ s.checkpoints = old
    <3> DEFINE y == z
    <3>1. y \in SessionType /\ y.checkpoints = old /\ y.id = z.id
      BY <1>4
    <3>2. s = WithTurns(y, m, n)
      BY DEF WithTurns
    <3> HIDE DEF y, s, z, old
    <3> QED BY <2>3, <3>1, <3>2, NewTurns
  <2> HIDE DEF s, old, z
  <2>6. p \in SessionType /\ p.id = z.id /\ p.checkpoints = c
    BY <2>3, <2>4, <2>5, NewCheckpoints
  <2> HIDE DEF p
  <2>7. Intact(s) /\ Intact(p)
    BY <2>2, <2>4, <2>5, <2>6 DEF Intact
  <2>8. Fine(s) \/ Fine(p)
    BY <2>1, <2>5, <2>6, <2>7
  <2> QED BY ZenonT(60), <1>3, <2>8
<1> QED BY Zenon, <1>7, <1>8, <1>9, <1>10

\* Every step of a session keeps the conversations and their records.
LEMMA SessionStep ==
  ASSUME SessionsTyped, SessionsKept, SessionNext PROVE SessionsTyped' /\ SessionsKept'
<1>1. PICK w \in Terminals :
        OpenTerminal(w) \/ SayTurn(w) \/ Clear(w) \/ CompactContext(w) \/ Checkpoint(w)
        \/ (\E n \in 1 .. MaxCheckpoints : Restore(w, n)) \/ ResumeRecord(w) \/ Leave(w)
  BY Zenon DEF SessionNext
<1>2. CASE OpenTerminal(w) \/ SayTurn(w) \/ ResumeRecord(w) \/ Leave(w)
  BY <1>2, OpenKeeps, SayKeeps, ResumeKeeps, LeaveKeeps
<1>3. CASE Clear(w) \/ CompactContext(w) \/ Checkpoint(w)
  BY <1>3, EditKeeps
<1>4. ASSUME NEW n \in 1 .. MaxCheckpoints, Restore(w, n) PROVE SessionsTyped' /\ SessionsKept'
  BY <1>4, EditKeeps
<1> QED BY Zenon, <1>1, <1>2, <1>3, <1>4

-----------------------------------------------------------------------------
(* The terminal as a whole. *)

TerminalInv ==
  /\ SessionsTyped /\ SessionsKept
  /\ KeysTyped /\ KeysPlaced /\ KeysKept
  /\ AsksTyped /\ AsksHold /\ ApprovedDeliberately
  /\ PickerInv

LEMMA TerminalStart == TerminalInit => TerminalInv
<1> SUFFICES ASSUME TerminalInit PROVE TerminalInv
  OBVIOUS
<1>1. SessionsTyped
  <2>1. Closed \in SessionType /\ Intact(Closed) /\ Closed.id = 0
    BY DEF Closed, SessionType, Messages, Intact
  <2>2. DOMAIN records = {} /\ ToSet(saves) = {} /\ saves \in Seq(Nat)
    BY DEF TerminalInit, ToSet
  <2> QED BY <2>1, <2>2 DEF TerminalInit, SessionsTyped
<1>2. SessionsKept
  <2>1. OpenSession = {} /\ 1 .. spoken = {}
    BY DEF TerminalInit, Closed, OpenSession
  <2> QED BY <2>1 DEF SessionsKept
<1>3. KeysTyped /\ KeysPlaced
  BY DEF TerminalInit, KeysTyped, KeysPlaced
<1>4. KeysKept
  BY NoKeys DEF TerminalInit, KeysKept
<1>5. AsksTyped
  <2>1. Quiet \in AskType
    BY DEF Quiet, AskType
  <2> QED BY <2>1 DEF TerminalInit, AsksTyped, TurnType, PausedRegion
<1>6. AsksHold /\ ApprovedDeliberately
  BY DEF TerminalInit, AsksHold, OpenAsks, Quiet, ApprovedDeliberately, PausedRegion
<1>7. PickerInv
  BY DEF TerminalInit, PickerInv
<1> QED BY <1>1, <1>2, <1>3, <1>4, <1>5, <1>6, <1>7 DEF TerminalInv

LEMMA SessionsRest ==
  ASSUME SessionsTyped, SessionsKept, UNCHANGED sessionVars PROVE SessionsTyped' /\ SessionsKept'
<1>1. UNCHANGED <<sessions, records, saves, ids, spoken, givenUp, sharedIds>>
  BY DEF sessionVars
<1>2. SessionsTyped'
  BY <1>1 DEF SessionsTyped, Intact
<1>3. SessionsKept'
  <2>1. OpenSession' = OpenSession
    BY <1>1 DEF OpenSession
  <2>2. \A v : Said(v)' = Said(v)
    BY <1>1 DEF Said, TurnsIn
  <2>3. \A t : InRecord(t)' <=> InRecord(t)
    BY <1>1 DEF InRecord, TurnsIn
  <2>4. \A v : TurnsIn(records[sessions[v].id].messages)' = TurnsIn(records[sessions[v].id].messages)
    BY <1>1 DEF TurnsIn
  <2> QED BY <1>1, <2>1, <2>2, <2>3, <2>4 DEF SessionsKept
<1> QED BY <1>2, <1>3

LEMMA KeysRest ==
  ASSUME KeysTyped, KeysPlaced, KeysKept, AsksTyped, AsksHold, ApprovedDeliberately, UNCHANGED keyVars
  PROVE  KeysTyped' /\ KeysPlaced' /\ KeysKept' /\ AsksTyped' /\ AsksHold' /\ ApprovedDeliberately'
<1>1. UNCHANGED <<turn, asks, draft, inbox, told, stillTyped, pressed, erased, eaten, region>>
  BY DEF keyVars
<1>2. KeysTyped' /\ KeysPlaced' /\ KeysKept'
  BY <1>1 DEF KeysTyped, KeysPlaced, KeysKept
<1>3. AsksTyped' /\ AsksHold' /\ ApprovedDeliberately'
  BY Zenon, <1>1 DEF AsksTyped, AsksHold, OpenAsks, ApprovedDeliberately
<1> QED BY <1>2, <1>3

LEMMA TerminalStep == TerminalInv /\ [TerminalNext]_terminalVars => TerminalInv'
<1> SUFFICES ASSUME TerminalInv, [TerminalNext]_terminalVars PROVE TerminalInv'
  OBVIOUS
<1>1. CASE SessionNext /\ UNCHANGED <<keyVars, picker>>
  BY <1>1, SessionStep, KeysRest, PickerSteps DEF TerminalInv
<1>2. CASE KeyNext /\ UNCHANGED <<sessionVars, picker>>
  BY <1>2, SessionsRest, KeysStep, PlacedStep, AsksStep, PickerSteps DEF TerminalInv
<1>3. CASE PickerNext /\ UNCHANGED <<sessionVars, keyVars>>
  BY <1>3, SessionsRest, KeysRest, PickerSteps DEF TerminalInv
<1>4. CASE UNCHANGED terminalVars
  BY <1>4, SessionsRest, KeysRest, PickerSteps DEF TerminalInv, terminalVars
<1> QED BY Zenon, <1>1, <1>2, <1>3, <1>4 DEF TerminalNext

LEMMA TerminalGood == ASSUME TerminalInv PROVE TerminalSound
<1>1. TurnsKept
  BY DEF TerminalInv, SessionsKept, InRecord, TurnsKept
<1>2. CheckpointsIntact
  BY DEF TerminalInv, SessionsTyped, Intact, CheckpointsIntact
<1>3. TypedKept
  BY Zenon DEF TerminalInv, KeysKept, KeysIn, TypedKept
<1>4. ApprovedDeliberately /\ QuestionReadable /\ PickerSteady
  BY QuestionHolds, PickerHolds DEF TerminalInv
<1> QED BY <1>1, <1>2, <1>3, <1>4 DEF TerminalSound

\* For any terminals, sessions, questions, keys and lists (src/forge/tui): unless two
\* terminals wrote one record every turn is in a record, and every key is accounted for.
THEOREM TerminalShape == TerminalSpec => []TerminalInv
  BY TerminalStart, TerminalStep, PTL DEF TerminalSpec

\* Through any order of saying, clearing, compacting, rewinding and resuming, any keys
\* and any interruption: no turn and no key is lost unasked, a checkpoint is what it was,
\* an approval is deliberate, an open question is readable and the picker's choice shown.
THEOREM TerminalHolds == TerminalSpec => []TerminalSound
  BY TerminalShape, TerminalGood, PTL

\* The browser and the terminal side by side keep their promises (server.py, src/forge/tui).
THEOREM FrontsHold == FrontsSpec => []FrontsSound
<1>1. FrontsInit => BrowserInv /\ TerminalInv
  BY BrowserStart, TerminalStart DEF FrontsInit
<1>2. BrowserInv /\ TerminalInv /\ [FrontsNext]_<<browserVars, terminalVars>> => BrowserInv' /\ TerminalInv'
  BY BrowserStep, TerminalStep DEF FrontsNext
<1>3. BrowserInv /\ TerminalInv => FrontsSound
  BY BrowserGood, TerminalGood DEF FrontsSound
<1> QED BY <1>1, <1>2, <1>3, PTL DEF FrontsSpec
=============================================================================
