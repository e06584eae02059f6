------------------------------ MODULE Weights ------------------------------
(***************************************************************************)
(* The weights process (python -m weights): when a cycle is due it reads   *)
(* the metagraph, vacates deregistered leaders, builds the vector of the   *)
(* open campaigns, appends a weight_sets row, signs the vector on chain    *)
(* and records how that went.  Two markers live in the process only and    *)
(* are rebuilt from the tables when it restarts.                           *)
(*                                                                         *)
(* Around it: rounds settle (completed_at is the begin of the settling     *)
(* transaction, which may commit later than a round that began after it),  *)
(* operators open and close campaigns under the emission trigger, and      *)
(* blocks pass.  Ages count blocks and stop where nothing depends on them. *)
(***************************************************************************)
EXTENDS Integers, FiniteSets, FiniteSetsExt, Functions

CONSTANTS
  Campaign,
  Hotkey,
  NoKey,       \* no leader, nobody paid
  ruleOf,      \* campaigns.emission_rule: [start, floor, span]
  Whole,       \* the subnet's emission, in parts; start and floor are in parts
  Scale,       \* a part is divided into Scale units, so that decay is exact
  Uid,         \* 0..uid_count-1
  BurnUid,     \* config.BURN_UID
  Meta,        \* metagraphs a fetch may return: hotkey -> uid, or -1
  Enabled,     \* config.WEIGHTS_ENABLED
  Cadence,     \* config.WEIGHTS_CADENCE_BLOCKS
  MaxHeld,     \* bound: decay ages, at least every span
  MaxSettles,  \* bound: rounds that begin to settle
  MaxFaults    \* bound: failed cycles and deaths of the process

ASSUME RuleAssumption ==
  /\ IsFiniteSet(Campaign) /\ NoKey \notin Hotkey
  /\ Whole \in Nat /\ Scale \in Nat \ {0} /\ Cadence \in Nat
  /\ MaxHeld \in Nat /\ MaxSettles \in Nat /\ MaxFaults \in Nat
  /\ ruleOf \in [Campaign -> [start : 0..Whole, floor : 0..Whole, span : 1..MaxHeld]]
  /\ \A c \in Campaign : /\ ruleOf[c].floor <= ruleOf[c].start
                         /\ Scale % ruleOf[c].span = 0
ASSUME UidAssumption ==
  /\ IsFiniteSet(Uid) /\ Uid \subseteq Nat /\ BurnUid \in Uid
  /\ \A m \in Meta : m \in [Hotkey -> Uid \cup {-1}]

VARIABLES
  open,        \* campaigns whose status is open
  opening,     \* opening updates that passed the trigger and did not commit
  crown,       \* leaders: the holder and the blocks since its round's seed
  settling,    \* begin time of an open complete_round, 0 when none
  live,        \* campaigns with a pending or running round
  begun,       \* settling transactions begun so far: the database clock
  completed,   \* begin times of the completed rounds
  row,         \* newest weight_sets row
  resultAge,   \* blocks since the newest row with a chain result
  wpc,         \* the process: down, idle, or the next step of its cycle
  lastRound,   \* WeightsProcess.last_stored_round
  setAge,      \* blocks since WeightsProcess.last_chain_set_block
  cycle,       \* the cycle's own variables
  faults       \* faults so far

tables    == <<open, opening, crown, settling, live, begun, completed>>
published == <<row, resultAge>>
process   == <<wpc, lastRound, setAge, cycle, faults>>
weightVars == <<tables, published, process>>

Never == Cadence   \* no block recorded: due, like one Cadence blocks old
Older(n, cap) == IF n < cap THEN n + 1 ELSE n

Vector == [Uid -> 0..(Whole * Scale)]
NoVec  == [u \in Uid |-> -1]
NoRow  == [at |-> -1, vec |-> NoVec, pays |-> [c \in Campaign |-> NoKey]]
NoCycle == [marker |-> 0, meta |-> [h \in Hotkey |-> -1], age |-> 0, sign |-> FALSE,
            vec |-> NoVec, pays |-> [c \in Campaign |-> NoKey]]

InitWeights ==
  /\ open = {} /\ opening = {}
  /\ crown = [c \in Campaign |-> [key |-> NoKey, held |-> 0]]
  /\ settling = [c \in Campaign |-> 0] /\ live = {}
  /\ begun = 0 /\ completed = {}
  /\ row = NoRow /\ resultAge = Never
  /\ wpc = "down" /\ lastRound = 0 /\ setAge = Never
  /\ cycle = NoCycle /\ faults = 0

-----------------------------------------------------------------------------
\* The vector (weights/build.py).

\* linear_decay, in units.
Curve(r, held) ==
  IF held <= 0 THEN r.start * Scale
  ELSE IF held >= r.span THEN r.floor * Scale
  ELSE r.floor * Scale + ((r.start - r.floor) * Scale * (r.span - held)) \div r.span

\* Whom campaign c pays: nobody when vacant, closed or deregistered.
Paid(c, m) ==
  IF crown[c].key # NoKey /\ c \in open /\ m[crown[c].key] \in Uid
  THEN crown[c].key ELSE NoKey

\* What a uid earns before burn takes the rest.
Share(u, m) ==
  SumFunction([c \in Campaign |-> IF Paid(c, m) # NoKey /\ m[crown[c].key] = u
                                  THEN Curve(ruleOf[c], crown[c].held) ELSE 0])

Burn(m) == Whole * Scale - SumFunction([u \in Uid |-> Share(u, m)])

BuildableAnyBurn(m) == TRUE  \* mutant: the negative burn is not refused

\* build_weight_vector raises when burn would be negative.
Buildable(m) == Burn(m) >= 0

BuildVector(m) == [u \in Uid |-> Share(u, m) + (IF u = BurnUid THEN Burn(m) ELSE 0)]

-----------------------------------------------------------------------------
\* Campaign rows.

StartSum(S) == SumFunction([c \in S |-> ruleOf[c].start])

\* campaigns_emission_sum_guard reads the committed rows of the others.
TriggerPasses(c) == ruleOf[c].start + StartSum(open \ {c}) <= Whole

OpenBegins(c) ==
  /\ c \notin open \cup opening
  /\ TriggerPasses(c)
  /\ opening' = opening \cup {c}
  /\ UNCHANGED <<open, crown, settling, live, begun, completed, published, process>>

OpenCommits(c) ==
  /\ c \in opening
  /\ opening' = opening \ {c} /\ open' = open \cup {c}
  /\ UNCHANGED <<crown, settling, live, begun, completed, published, process>>

CloseCampaign(c) ==
  /\ c \in open
  /\ open' = open \ {c}
  /\ UNCHANGED <<opening, crown, settling, live, begun, completed, published, process>>

\* create_round.  A round that starts can also settle within the bound.
StartRound(c) ==
  /\ c \in open \ live
  /\ begun + Cardinality({d \in live : settling[d] = 0}) < MaxSettles
  /\ live' = live \cup {c}
  /\ UNCHANGED <<open, opening, crown, settling, begun, completed, published, process>>

\* complete_round begins: now() is fixed here.
SettleBegins(c) ==
  /\ c \in live /\ settling[c] = 0
  /\ begun' = begun + 1
  /\ settling' = [settling EXCEPT ![c] = begun + 1]
  /\ UNCHANGED <<open, opening, crown, live, completed, published, process>>

\* complete_round commits: the crown is kept, passed on or vacated.  A new
\* leader's decay clock started at the round's seed, any number of blocks ago.
SettleCommits(c) ==
  /\ settling[c] # 0
  /\ \/ UNCHANGED crown
     \/ \E h \in Hotkey \ {crown[c].key}, n \in 0..MaxHeld :
          crown' = [crown EXCEPT ![c] = [key |-> h, held |-> n]]
     \/ crown' = [crown EXCEPT ![c] = [key |-> NoKey, held |-> 0]]
  /\ completed' = completed \cup {settling[c]}
  /\ settling' = [settling EXCEPT ![c] = 0]
  /\ live' = live \ {c}
  /\ UNCHANGED <<open, opening, begun, published, process>>

\* One transaction of the round worker.
Settle(c) == SettleBegins(c) \/ SettleCommits(c)

\* A block: every age grows.
Block ==
  /\ crown' = [c \in Campaign |-> [crown[c] EXCEPT !.held =
                 IF crown[c].key = NoKey THEN 0 ELSE Older(@, MaxHeld)]]
  /\ resultAge' = Older(resultAge, Cadence)
  /\ setAge' = Older(setAge, Cadence)
  /\ cycle' = IF wpc \in {"down", "idle"} THEN cycle
              ELSE [cycle EXCEPT !.age = Older(@, Cadence)]
  /\ UNCHANGED <<open, opening, settling, live, begun, completed, row,
                 wpc, lastRound, faults>>

-----------------------------------------------------------------------------
\* The process.

\* get_latest_stored_round_marker: the newest completed round not newer than
\* the newest row.
StoredMarker == Max({0} \cup {k \in completed : k <= row.at})

\* get_latest_completed_round_marker
CompletedMarker == Max({0} \cup completed)

\* main: the markers come from the tables.
StartProcess ==
  /\ wpc = "down"
  /\ wpc' = "idle"
  /\ lastRound' = StoredMarker
  /\ setAge' = resultAge
  /\ UNCHANGED <<tables, published, cycle, faults>>

CycleDueOnce == setAge = Never /\ row = NoRow  \* mutant: the first cycle only
CycleDue == setAge >= Cadence
RoundDue == CompletedMarker # 0 /\ CompletedMarker # lastRound

\* _cycle up to fetch_metagraph: marker first, metagraph after it.
BeginCycle ==
  /\ wpc = "idle"
  /\ CycleDue \/ RoundDue
  /\ \E m \in Meta :
       cycle' = [NoCycle EXCEPT !.marker = CompletedMarker, !.sign = CycleDue, !.meta = m]
  /\ wpc' = "reconcile"
  /\ UNCHANGED <<tables, published, lastRound, setAge, faults>>

\* The end of tick: a signing cycle moves the block marker, done or aborted.
TickEnds ==
  /\ wpc' = "idle" /\ cycle' = NoCycle
  /\ setAge' = IF cycle.sign THEN cycle.age ELSE setAge
  /\ lastRound' = cycle.marker

\* No validator permit, or a metagraph that contradicts itself.
Abort ==
  /\ wpc = "reconcile" /\ faults < MaxFaults
  /\ TickEnds
  /\ faults' = faults + 1
  /\ UNCHANGED <<tables, published>>

\* reconcile_deregistrations: idle leaders that left the metagraph.  (Rounds
\* splits its read from its writes.)
Reconcile ==
  /\ wpc = "reconcile"
  /\ crown' = [c \in Campaign |->
                 IF crown[c].key # NoKey /\ c \notin live /\ cycle.meta[crown[c].key] = -1
                 THEN [key |-> NoKey, held |-> 0] ELSE crown[c]]
  /\ wpc' = "build"
  /\ UNCHANGED <<open, opening, settling, live, begun, completed, published,
                 lastRound, setAge, cycle, faults>>

\* list_open_campaign_emissions and build_weight_vector.
Build ==
  /\ wpc = "build"
  /\ \/ /\ Buildable(cycle.meta)
        /\ cycle' = [cycle EXCEPT !.vec  = BuildVector(cycle.meta), !.meta = NoCycle.meta,
                                  !.pays = [c \in Campaign |-> Paid(c, cycle.meta)]]
        /\ wpc' = "store"
        /\ UNCHANGED <<lastRound, setAge>>
     \/ ~Buildable(cycle.meta) /\ TickEnds
  /\ UNCHANGED <<tables, published, faults>>

\* _same_vector: the newest row already holds this one.
SameVector == row.vec = cycle.vec

\* insert_weight_set: the row is of the time its insert begins.
InsertWeightSet == row' = [at |-> begun, vec |-> cycle.vec, pays |-> cycle.pays]

\* Stored always when signing, else only when it changed.
Store ==
  /\ wpc = "store"
  /\ IF cycle.sign \/ ~SameVector THEN InsertWeightSet ELSE UNCHANGED row
  /\ \/ /\ cycle.sign /\ Enabled
        /\ wpc' = "sign" /\ UNCHANGED <<lastRound, setAge, cycle>>
     \/ ~(cycle.sign /\ Enabled) /\ TickEnds
  /\ UNCHANGED <<tables, resultAge, faults>>

\* set_weights: accepted, refused on every attempt, or landed on an attempt
\* that looked failed; the process goes on in the same way.
Sign ==
  /\ wpc = "sign"
  /\ wpc' = "mark"
  /\ UNCHANGED <<tables, row, resultAge, lastRound, setAge, cycle, faults>>

\* mark_weight_set_result: the row this cycle stored has a chain result.
MarkResult == resultAge' = cycle.age

\* The result is recorded, and the tick ends.
Mark ==
  /\ wpc = "mark"
  /\ MarkResult
  /\ TickEnds
  /\ UNCHANGED <<tables, row, faults>>

\* Any exception ends the cycle and moves no marker.
CycleFails ==
  /\ wpc \notin {"down", "idle"} /\ faults < MaxFaults
  /\ wpc' = "idle" /\ cycle' = NoCycle
  /\ faults' = faults + 1
  /\ UNCHANGED <<tables, row, resultAge, lastRound, setAge>>

\* The process dies, with its markers.
Die ==
  /\ wpc # "down" /\ faults < MaxFaults
  /\ wpc' = "down" /\ cycle' = NoCycle /\ lastRound' = 0 /\ setAge' = Never
  /\ faults' = faults + 1
  /\ UNCHANGED <<tables, row, resultAge>>

-----------------------------------------------------------------------------
ProcessNext ==
  \/ StartProcess \/ BeginCycle \/ Reconcile \/ Build \/ Store \/ Sign \/ Mark

NextWeights ==
  \/ \E c \in Campaign :
       \/ OpenBegins(c) \/ OpenCommits(c) \/ CloseCampaign(c)
       \/ StartRound(c) \/ Settle(c)
  \/ Block \/ ProcessNext \/ Abort \/ CycleFails \/ Die

SpecWeights == InitWeights /\ [][NextWeights]_weightVars

\* systemd restarts the process, which polls; its calls return; blocks pass.
\* A round that started settles (RunningEnds of Rounds).
FairWeights ==
  /\ WF_weightVars(ProcessNext) /\ WF_weightVars(Block)
  /\ \A c \in Campaign : WF_weightVars(Settle(c))

-----------------------------------------------------------------------------
\* Properties.

\* Every variable stays in its domain.
TypeOKWeights ==
  /\ open \subseteq Campaign /\ opening \subseteq Campaign
  /\ live \subseteq Campaign
  /\ crown \in [Campaign -> [key : Hotkey \cup {NoKey}, held : 0..MaxHeld]]
  /\ settling \in [Campaign -> 0..MaxSettles]
  /\ begun \in 0..MaxSettles /\ completed \subseteq 1..begun
  /\ row.at \in -1..MaxSettles
  /\ resultAge \in 0..Cadence /\ setAge \in 0..Cadence
  /\ lastRound \in 0..MaxSettles
  /\ wpc \in {"down", "idle", "reconcile", "build", "store", "sign", "mark"}

\* A stored vector gives every uid a share within the whole and sums to the
\* whole, also after two campaigns were opened at once and the trigger, which
\* saw neither commit, let them promise more than there is.
StoredVectorSound ==
  row # NoRow => /\ row.vec \in Vector
                 /\ SumFunction(row.vec) = Whole * Scale

\* Whatever the interleaving of openings, settlements and cycles, the vector on
\* record can be signed as it stands.
VectorSafe == TypeOKWeights /\ StoredVectorSound

\* A new leader of an open campaign reaches the published vector, even when
\* its round committed out of order or the process died after a marker moved:
\* again and again the vector on record pays the leader of the campaign, unless
\* it is closed or the open campaigns promise more than there is.
CrownPublished ==
  \A c \in Campaign :
    []<>( \/ c \notin open \/ crown[c].key = NoKey
          \/ row.pays[c] = crown[c].key
          \/ StartSum(open) > Whole )
=============================================================================
