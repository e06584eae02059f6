------------------------------- MODULE Ingest -------------------------------
(***************************************************************************)
(* From a miner's patch to a submission row.                               *)
(*   - A miner runs commit_patch: upload, quote the fee, pay it, check the *)
(*     payment against fresh terms, commit (campaign, hash, payment) on    *)
(*     chain.  Other software may commit anything.                         *)
(*   - The operator changes the fee (the chain height is read before the   *)
(*     row is locked), excludes hotkeys, and carries a submission of the   *)
(*     closed campaign into the open one: plan, recheck, copy, insert.     *)
(*   - The watcher scans: a snapshot of the newest commitment of every     *)
(*     hotkey, in chain order, each checked and then inserted.             *)
(* A payment reference is the block of its transfer, one per block.        *)
(***************************************************************************)
EXTENDS Integers, Sequences, FiniteSets, FiniteSetsExt, SequencesExt

CONSTANTS
  Miner,       \* hotkeys; each pays from its own coldkey
  ToolUser,    \* the ones that run commit_patch
  hkOrder,     \* the byte order of hotkeys: Miner -> Nat
  Patch,       \* patch contents; the hash tells them apart
  printOf,     \* patch_fingerprint_bytes: patches equal up to comments share one
  Old, New,    \* a closed campaign, and one open for submissions
  OldPatch, OldMiner,  \* the submission Old holds, paid at block 1
  Fees,        \* amounts the operator may set; 0 is free
  ExemptHotkeys,  \* SUBMISSION_FEE_EXEMPT_HOTKEYS, where the cast has "exempt"
  StartBlock,  \* the first block of the competition, where the cast has "start"
  Casts,       \* bound: who acts besides the tool and the watcher, in one behaviour
  MaxHeight,   \* bound: blocks
  MaxDrops,    \* bound: failed fetches, scans and deaths of the watcher
  MaxForged    \* bound: commitments and transfers made without the tool

ASSUME MinerAssumption ==
  /\ IsFiniteSet(Miner) /\ ToolUser \subseteq Miner /\ ExemptHotkeys \subseteq Miner
  /\ OldMiner \in Miner /\ OldPatch \in Patch /\ Old # New
  /\ \A h, k \in Miner : h # k => hkOrder[h] # hkOrder[k]
ASSUME FeeAssumption ==
  /\ Fees \subseteq Nat /\ 0 \in Fees /\ MaxHeight \in Nat /\ MaxHeight >= 2
  /\ StartBlock \in Nat /\ MaxDrops \in Nat /\ MaxForged \in Nat

VARIABLES
  height,      \* the chain's block
  fees,        \* New's submission_fee_history: <<[from, amount]>>
  feeRead,     \* the height a running set_fee read, 0 when none runs
  lagged,      \* some fee took effect at a block the chain had passed
  paid,        \* transfers: block -> [by, amount], or NoTransfer
  standing,    \* newest commitment of every hotkey, or NoCom
  tool,        \* commit_patch of every miner
  subs,        \* rows of submissions
  barred,      \* hotkeys disqualified in New
  newOpen,     \* New's status is open
  carry,       \* the carryover tool: idle, planned or copied
  scan,        \* the watcher: the commitments left, and the checked one
  failed,      \* _failed_hash_checks
  drops, forged,
  cast         \* the one of Casts this behaviour has

ingestVars == <<height, fees, feeRead, lagged, paid, standing, tool, subs, barred, newOpen,
                carry, scan, failed, drops, forged, cast>>
chainState    == <<height, paid, standing>>
campaignState == <<fees, feeRead, lagged, barred, newOpen>>
watcherState  == <<scan, failed, drops>>

\* Settings a process reads when it starts; none of them changes in a behaviour.
Exempt == IF "exempt" \in cast THEN ExemptHotkeys ELSE {}
CompetitionStart == IF "start" \in cast THEN StartBlock ELSE 0

NoTransfer == [by |-> "nobody", amount |-> -1]
NoCom  == [camp |-> Old, patch |-> OldPatch, block |-> 0, pay |-> 0, bytes |-> "none", own |-> FALSE]
NoTool == [pc |-> "idle", patch |-> OldPatch, quote |-> 0, pay |-> 0]
NoScan == [todo |-> <<>>, checked |-> FALSE]

\* A submissions row.  pay is 0 without a payment reference; dup marks one that
\* was rejected as a duplicate on entry; via is how it came in.
Row(c, p, h, b, pay, dup, via) ==
  [camp |-> c, patch |-> p, key |-> h, block |-> b, pay |-> pay, dup |-> dup, via |-> via]

InitIngest ==
  /\ height = 1 /\ fees \in {<<[from |-> 0, amount |-> a]>> : a \in Fees} /\ feeRead = 0 /\ lagged = FALSE
  /\ paid = [b \in 1..MaxHeight |->
               IF b = 1 THEN [by |-> OldMiner, amount |-> Max(Fees)] ELSE NoTransfer]
  /\ standing = [h \in Miner |-> NoCom] /\ tool = [h \in Miner |-> NoTool]
  /\ subs = {Row(Old, OldPatch, OldMiner, 1, 1, FALSE, "chain")}
  /\ barred = {} /\ newOpen = TRUE /\ carry = "idle"
  /\ scan = NoScan /\ failed = {} /\ drops = 0 /\ forged = 0 /\ cast \in Casts

-----------------------------------------------------------------------------
\* Fee terms (campaign/fees.py, campaign/set_fee.py, db/schema.sql).

\* fee_at_block: the last entry that had taken effect.
FeeAtBlock(hist, b) == hist[Max({i \in DOMAIN hist : hist[i].from <= b})].amount
FeeAt(b) == FeeAtBlock(fees, b)

\* validate_fee_history
ValidHistory(hist) ==
  /\ hist # <<>> /\ hist[1].from = 0
  /\ \A i \in 1..(Len(hist) - 1) : hist[i].from < hist[i + 1].from

\* main reads subtensor.block and closes the connection.
ReadHeight ==
  /\ feeRead = 0 /\ feeRead' = height
  /\ UNCHANGED <<chainState, fees, lagged, barred, newOpen, tool, subs, carry, watcherState, forged>>

\* set_fee, under the row lock: append-only, from the block after the one read.
SetFee(amount) ==
  /\ feeRead > 0 /\ feeRead' = 0
  /\ IF feeRead <= Last(fees).from THEN UNCHANGED <<fees, lagged>>
     ELSE /\ fees' = Append(fees, [from |-> feeRead + 1, amount |-> amount])
          /\ lagged' = (lagged \/ feeRead + 1 <= height)
  /\ UNCHANGED <<chainState, barred, newOpen, tool, subs, carry, watcherState, forged>>

-----------------------------------------------------------------------------
\* The chain.

Mined(b) == height < MaxHeight /\ height' = height + 1 /\ b

NextBlock == Mined(UNCHANGED <<paid, standing>>)
             /\ UNCHANGED <<campaignState, tool, subs, carry, watcherState, forged>>

\* A transfer by other software: too little, too late, failed or to somebody else.
ForeignTransfer(h) ==
  /\ forged < MaxForged /\ forged' = forged + 1
  /\ \E a \in Fees \cup {-1} :
       Mined(paid' = [paid EXCEPT ![height + 1] = [by |-> h, amount |-> a]] /\ UNCHANGED standing)
  /\ UNCHANGED <<campaignState, tool, subs, carry, watcherState>>

\* set_commitment by other software.  bytes: what the locator resolves to
\* (match, another object, nothing allowed) or a payload that does not parse.
ForeignCommit(h) ==
  /\ forged < MaxForged /\ forged' = forged + 1
  /\ \E p \in Patch, ref \in 0..height, by \in {"match", "other", "foreign", "garbage"} :
       /\ by # "match" => ref = 0 /\ p = OldPatch
       /\ Mined(standing' = [standing EXCEPT ![h] =
                  [camp |-> New, patch |-> p, block |-> height + 1, pay |-> ref,
                   bytes |-> by, own |-> FALSE]] /\ UNCHANGED paid)
  /\ UNCHANGED <<campaignState, tool, subs, carry, watcherState>>

-----------------------------------------------------------------------------
\* commit_patch.

\* presign_patch: an open campaign and a hotkey in good standing.
MayUpload(h) == newOpen /\ h \notin barred

\* The private object can be written once, with the hash the API signed.
UploadPatch(h, p) ==
  /\ tool[h].pc = "idle" /\ MayUpload(h)
  /\ tool' = [tool EXCEPT ![h] = [pc |-> "uploaded", patch |-> p, quote |-> 0, pay |-> 0]]
  /\ UNCHANGED <<chainState, campaignState, subs, carry, watcherState, forged>>

\* The refresh before any transfer: the API publishes the newest terms.
QuoteFee(h) ==
  /\ tool[h].pc = "uploaded"
  /\ tool' = [tool EXCEPT ![h].quote = Last(fees).amount,
                          ![h].pc = IF Last(fees).amount > 0 THEN "paying" ELSE "ready"]
  /\ UNCHANGED <<chainState, campaignState, subs, carry, watcherState, forged>>

\* _pay_fee: the transfer lands in a later block.
PayFee(h) ==
  /\ tool[h].pc = "paying"
  /\ Mined(paid' = [paid EXCEPT ![height + 1] = [by |-> h, amount |-> tool[h].quote]]
          /\ UNCHANGED standing)
  /\ tool' = [tool EXCEPT ![h].pc = "paid", ![h].pay = height + 1]
  /\ UNCHANGED <<campaignState, subs, carry, watcherState, forged>>

\* Fresh history at the block of inclusion; an insufficient payment is not used.
VerifyPaid(h) ==
  /\ tool[h].pc = "paid"
  /\ tool' = [tool EXCEPT ![h] = IF FeeAt(@.pay) > @.quote THEN NoTool ELSE [@ EXCEPT !.pc = "ready"]]
  /\ UNCHANGED <<chainState, campaignState, subs, carry, watcherState, forged>>

\* set_commitment.  It may land although the submission looks failed, and then
\* a second run reuses the reference with --payment-block.
SubmitCommit(h) ==
  /\ tool[h].pc = "ready"
  /\ Mined(standing' = [standing EXCEPT ![h] =
             [camp |-> New, patch |-> tool[h].patch, block |-> height + 1, pay |-> tool[h].pay,
              bytes |-> "match", own |-> TRUE]] /\ UNCHANGED paid)
  /\ tool' \in {[tool EXCEPT ![h] = NoTool], tool}
  /\ UNCHANGED <<campaignState, subs, carry, watcherState, forged>>

-----------------------------------------------------------------------------
\* Submission rows (campaign/store.py insert_submission).

RefConsumedInCampaign(c, ref) == \E s \in subs : s.pay = ref /\ s.camp = c  \* mutant
\* payment_ref_consumed, and the unique index on (payment_block, payment_tx).
RefConsumed(c, ref) == \E s \in subs : s.pay = ref

\* UNIQUE (campaign_id, patch_hash)
Taken(c, p) == \E s \in subs : s.camp = c /\ s.patch = p

\* An earlier row of the campaign with the same fingerprint.
Duplicate(c, p) == \E s \in subs : s.camp = c /\ printOf[s.patch] = printOf[p]

InsertAnyone(h, p, b, pay, via) ==  \* mutant: the exclusion is not read under the lock
  subs' = IF Taken(New, p) THEN subs
          ELSE subs \cup {Row(New, p, h, b, pay, Duplicate(New, p), via)}

\* Under the campaign lock: nothing for an excluded hotkey or a taken hash; a
\* duplicate keeps its row, its reference and its verdict, and gets no job.
InsertSubmission(h, p, b, pay, via) ==
  subs' = IF h \in barred \/ Taken(New, p) THEN subs
          ELSE subs \cup {Row(New, p, h, b, pay, Duplicate(New, p), via)}

-----------------------------------------------------------------------------
\* The operator.

Disqualify(h) ==
  /\ h \notin barred /\ barred' = barred \cup {h}
  /\ UNCHANGED <<chainState, fees, feeRead, lagged, newOpen, tool, subs, carry, watcherState, forged>>

CloseNew ==
  /\ newOpen /\ newOpen' = FALSE
  /\ UNCHANGED <<chainState, fees, feeRead, lagged, barred, tool, subs, carry, watcherState, forged>>

\* build_plan keeps the source submission.
PlanCarry ==
  /\ carry = "idle" /\ newOpen
  /\ OldMiner \notin barred /\ ~Taken(New, OldPatch) /\ ~Duplicate(New, OldPatch)
  /\ carry' = "planned"
  /\ UNCHANGED <<chainState, campaignState, tool, subs, watcherState, forged>>

\* apply_plan: _recheck, then the copy under a name a retry reuses.
CopyCarry ==
  /\ carry = "planned"
  /\ carry' = IF OldMiner \in barred THEN "idle" ELSE "copied"
  /\ UNCHANGED <<chainState, campaignState, tool, subs, watcherState, forged>>

InsertCarry ==
  /\ carry = "copied" /\ carry' = "idle"
  /\ InsertSubmission(OldMiner, OldPatch, 1, 0, "carry")
  /\ UNCHANGED <<chainState, campaignState, tool, watcherState, forged>>

-----------------------------------------------------------------------------
\* The watcher.

\* _hash_check_key: hotkey, hash and locator.  A locator resolves to what it did
\* before, so what it resolves to stands for it.
HashKey(h, com) == <<h, com.patch, com.bytes>>

\* parse_patch_commitment: anything but garbage.
Parses(com) == com.bytes # "garbage"

\* build_patch_commitments: the newest commitment of each hotkey, if it parses.
Parsed == {h \in Miner : standing[h] # NoCom /\ Parses(standing[h])}

\* Chain chronology.
Earlier(h, k) ==
  \/ standing[h].block < standing[k].block
  \/ standing[h].block = standing[k].block /\ hkOrder[h] < hkOrder[k]

\* scan_chain up to its loop: one read of the chain; failures recorded for a
\* commitment that was replaced are dropped.
BeginScan ==
  /\ scan = NoScan /\ Parsed # {}
  /\ \E order \in [1..Cardinality(Parsed) -> Parsed] :
       /\ \A i, j \in DOMAIN order : i < j => Earlier(order[i], order[j])
       /\ scan' = [NoScan EXCEPT !.todo = [i \in DOMAIN order |->
                                             [key |-> order[i], com |-> standing[order[i]]]]]
  /\ failed' = failed \cap {HashKey(h, standing[h]) : h \in Parsed}
  /\ UNCHANGED <<chainState, campaignState, tool, subs, carry, drops, forged>>

\* verify_payment: a transfer to the recipient, enough, by the submitter, that
\* went through (a failed one has amount -1).
VerifyPayment(h, ref, fee) ==
  paid[ref].amount >= 0 /\ paid[ref].amount >= fee /\ paid[ref].by = h

\* check_fee_proof: a proof, in time, unused and sound at its own block.
ProofOK(h, com) ==
  /\ com.pay > 0 /\ com.pay <= com.block
  /\ ~RefConsumed(com.camp, com.pay)
  /\ VerifyPayment(h, com.pay, FeeAt(com.pay))

\* An exempt hotkey pays nothing; else, without a proof, the fee at the commitment's
\* block decides.
FeeOK(h, com) == h \in Exempt \/ (com.pay = 0 /\ FeeAt(com.block) = 0) \/ ProofOK(h, com)

\* What the row records: an exempt submission consumes no reference.
RefOf(h, com) == IF h \in Exempt THEN 0 ELSE com.pay

\* private_patch_key, is_allowed_retrieval_url and patch_url_hotkey: an object of
\* the private prefix under the hotkey's own path.
OwnLocator(com) == com.bytes # "foreign"

\* ingest_commitment up to the fetch: what is skipped without a trace, as is a
\* commitment from before the competition.
Admissible(h, com) ==
  /\ com.camp = New /\ newOpen /\ ~Taken(New, com.patch)
  /\ com.block >= CompetitionStart
  /\ HashKey(h, com) \notin failed
  /\ OwnLocator(com)
  /\ FeeOK(h, com)

Skip == scan' = [todo |-> Tail(scan.todo), checked |-> FALSE]

\* check_integrity: the bytes at the locator have the committed hash.
Intact(com) == com.bytes = "match"

\* fetch_patch_bytes, the block with the payment or the time of the commitment's
\* block is not available.
FetchFails == drops < MaxDrops /\ drops' = drops + 1

\* ingest_commitment up to insert_submission.  A fetch may fail, also of the
\* blocks that prove the payment and date the commitment: retried in the next scan.  A mismatch is final.
CheckCommitment ==
  /\ scan.todo # <<>> /\ ~scan.checked
  /\ LET h == Head(scan.todo).key  com == Head(scan.todo).com IN
     \/ ~Admissible(h, com) /\ Skip /\ UNCHANGED <<failed, drops>>
     \/ Admissible(h, com) /\ ~Intact(com)
        /\ failed' = failed \cup {HashKey(h, com)} /\ Skip /\ UNCHANGED drops
     \/ Admissible(h, com) /\ FetchFails /\ Skip
        /\ UNCHANGED failed
     \/ Admissible(h, com) /\ Intact(com)
        /\ scan' = [scan EXCEPT !.checked = TRUE] /\ UNCHANGED <<failed, drops>>
  /\ UNCHANGED <<chainState, campaignState, tool, subs, carry, forged>>

\* insert_submission for the checked commitment; the index may refuse the
\* reference, which ends the scan.
IngestCommitment ==
  /\ scan.checked
  /\ LET h == Head(scan.todo).key  com == Head(scan.todo).com IN
     IF RefOf(h, com) > 0 /\ RefConsumed(com.camp, RefOf(h, com))
     THEN scan' = NoScan /\ UNCHANGED subs
     ELSE InsertSubmission(h, com.patch, com.block, RefOf(h, com), "chain") /\ Skip
  /\ UNCHANGED <<chainState, campaignState, tool, carry, failed, drops, forged>>

\* An exception ends the scan; a death of the process loses its cache too.
ScanFails ==
  /\ scan # NoScan /\ drops < MaxDrops /\ drops' = drops + 1
  /\ scan' = NoScan /\ failed' \in {failed, {}}
  /\ UNCHANGED <<chainState, campaignState, tool, subs, carry, forged>>

-----------------------------------------------------------------------------
WatcherNext == BeginScan \/ CheckCommitment \/ IngestCommitment

Others ==
  \/ "fee"   \in cast /\ (ReadHeight \/ \E a \in Fees : SetFee(a))
  \/ "forge" \in cast /\ \E h \in Miner : ForeignTransfer(h) \/ ForeignCommit(h)
  \/ "bar"   \in cast /\ ((\E h \in Miner : Disqualify(h)) \/ CloseNew)
  \/ "carry" \in cast /\ (PlanCarry \/ CopyCarry \/ InsertCarry)

ToolNext ==
  \E h \in ToolUser : \/ \E p \in Patch : UploadPatch(h, p)
                      \/ QuoteFee(h) \/ PayFee(h) \/ VerifyPaid(h) \/ SubmitCommit(h)

NextIngest ==
  /\ NextBlock \/ ToolNext \/ WatcherNext \/ ScanFails \/ Others
  /\ UNCHANGED cast

SpecIngest == InitIngest /\ [][NextIngest]_ingestVars

-----------------------------------------------------------------------------
\* Properties.

\* Every variable stays in its domain.
TypeOKIngest ==
  /\ height \in 1..MaxHeight /\ feeRead \in 0..MaxHeight
  /\ ValidHistory(fees)
  /\ barred \subseteq Miner /\ carry \in {"idle", "planned", "copied"}
  /\ \A h \in Miner : tool[h].pc \in {"idle", "uploaded", "paying", "paid", "ready"}
  /\ \A s \in subs : s.camp \in {Old, New} /\ s.key \in Miner /\ s.pay \in 0..MaxHeight
  /\ drops \in 0..MaxDrops /\ forged \in 0..MaxForged

\* One transfer backs one submission, in whatever campaign and however often
\* the reference is committed again or a scan repeated.
RefBacksOne == \A s, t \in subs : s.pay > 0 /\ s.pay = t.pay => s = t

\* A submission from the chain was committed once the competition had begun, and,
\* unless its hotkey is exempt, met the terms that the history, as it stands now,
\* gives for its blocks, with a transfer of its own; but for a fee change that landed
\* after the chain had passed its first block.  An exempt one holds no reference.
TermsMet ==
  ~lagged => \A s \in subs : s.camp = New /\ s.via = "chain" =>
    /\ s.block >= CompetitionStart
    /\ IF s.pay = 0 THEN s.key \in Exempt \/ FeeAt(s.block) = 0
       ELSE /\ s.key \notin Exempt
            /\ paid[s.pay].by = s.key /\ paid[s.pay].amount >= FeeAt(s.pay) /\ s.pay <= s.block

\* A payment the tool has committed is one the watcher accepts, until a row
\* consumes it: the check after inclusion is the watcher's check.
ToolProofAccepted ==
  ~lagged => \A h \in Miner :
    standing[h].own /\ standing[h].pay > 0 /\ ~RefConsumed(New, standing[h].pay)
      => ProofOK(h, standing[h])

\* An excluded hotkey gets no further row, from the watcher or from a carryover
\* that was planned and rechecked before the exclusion.
BarredStaysOut == [][\A s \in subs' \ subs : s.key \notin barred]_ingestVars

\* At most one submission of a campaign with a given fingerprint goes to the
\* gates, also when a carryover and a scan insert the same work.
OneWorkOnce ==
  \A s, t \in subs : s.camp = t.camp /\ printOf[s.patch] = printOf[t.patch] /\ ~s.dup /\ ~t.dup
                     => s = t

\* A hash enters for the earliest commitment to it that the scan saw, unless
\* that one's fetch failed.
FirstCommitWins ==
  [][\A s \in subs' \ subs : s.via = "chain" =>
       \A i \in DOMAIN scan.todo :
         LET c == scan.todo[i].com IN
         c.patch = s.patch /\ c.bytes = "match" /\ c.block >= CompetitionStart
           /\ FeeOK(scan.todo[i].key, c) => s.block <= c.block]_ingestVars

\* Who may enter a row and in which order, whatever was read before.
EntryRules == BarredStaysOut /\ FirstCommitWins
=============================================================================
