---------------------------- MODULE Publication ----------------------------
(***************************************************************************)
(* Patch storage: the API signs one conditional upload for a patch         *)
(* (src/api/server.py presign_patch, src/storage/upload_auth.py), the      *)
(* object is copied into another campaign's prefix by the carryover and,   *)
(* once its campaign's disclosure terms allow, into public storage         *)
(* (src/storage/s3.py, src/storage/visibility.py).                         *)
(*                                                                         *)
(* The model follows one upload UUID: the key it names in the private      *)
(* prefix, in the public prefix and in the second campaign's prefix.  The  *)
(* object store is external; an ETag identifies what an object holds.      *)
(***************************************************************************)
EXTENDS Naturals, FiniteSets, FiniteSetsExt

CONSTANTS SignedPatch,    \* patches signed for the upload UUID
          Committed,      \* the patch its chain commitment names
          Absent,         \* no object
          Handler,        \* API requests and carryover runs that copy the object
          Delays,         \* reveal_delay_s of the policies an operator sets
          AuthTtl,        \* UPLOAD_AUTH_TTL_S plus the minute of clock lead
          SignFor,        \* PRESIGN_EXPIRES_S
          MaxNow,         \* bound on time
          MaxPolicies,    \* bound on policy changes
          MaxRemovals,    \* bound on removals of the private object
          MaxSigned       \* bound on uploads signed at a time

ASSUME PublicationAssumption ==
    /\ Committed \in SignedPatch /\ Delays \subseteq Nat /\ AuthTtl \in Nat /\ SignFor \in Nat
    /\ MaxNow \in Nat /\ MaxPolicies \in Nat /\ MaxRemovals \in Nat

VARIABLES now,
          object,         \* what each key holds
          evaluations,    \* completion times of the complete rounds that judged it
          policy,         \* the campaign's disclosure terms: {} private, {d} public after d
          inForce,        \* every delay that has been in force
          auth,           \* the authorization being answered
          signed,         \* the signed uploads handed out
          hstate,         \* each copying request
          policies, removals

pubVars == <<now, object, evaluations, policy, inForce, auth, signed, hstate,
             policies, removals>>

\* validate_patch_visibility: private, or public after a delay.
Terms == {{}} \cup {{d} : d \in Delays}

Key   == {"private", "public", "carried"}
Quiet == [at |-> "idle", to |-> "public", terms |-> {}, etag |-> Absent]
NoAuth == [at |-> "idle", patch |-> Absent, until |-> 0, expires |-> 0]

TypeOKPublication ==
    /\ now \in 0..MaxNow
    /\ object \in [Key -> SignedPatch \cup {Absent}]
    /\ evaluations \subseteq 0..MaxNow
    /\ policy \in Terms /\ inForce \subseteq Delays
    /\ auth \in [at : {"idle", "head", "sign"}, patch : SignedPatch \cup {Absent},
                 until : 0..(MaxNow + AuthTtl), expires : 0..SignFor]
    /\ signed \subseteq [patch : SignedPatch, until : 1..(MaxNow + AuthTtl),
                         auth : 1..(MaxNow + AuthTtl)]
    /\ \A url \in signed : now < url.until
    /\ hstate \in [Handler -> [at : {"idle", "times", "target", "source", "copy"},
                               to : {"public", "carried"}, terms : SUBSET Delays,
                               etag : SignedPatch \cup {Absent}]]
    /\ policies \in 0..MaxPolicies /\ removals \in 0..MaxRemovals

InitPublication ==
    /\ now = 0 /\ object = [k \in Key |-> Absent]
    /\ evaluations = {} /\ policy = {} /\ inForce = {}
    /\ auth = NoAuth /\ signed = {} /\ hstate = [h \in Handler |-> Quiet]
    /\ policies = 0 /\ removals = 0

\* Time passes (external); an expired signature is of no more use.
Pass ==
    /\ now < MaxNow /\ now' = now + 1
    /\ signed' = {url \in signed : now' < url.until}
    /\ UNCHANGED <<object, evaluations, policy, inForce, auth, hstate, policies, removals>>

(***************************************************************************)
(* The signed upload.                                                      *)
(***************************************************************************)
\* verify_upload_request: an authorization that ends between now and the limit.
Authorized(until) == 0 < until - now /\ until - now <= AuthTtl

\* presign_patch, for a campaign that is open to the miner, who signed the request.
VerifyUpload(p, until) ==
    /\ auth.at = "idle" /\ Cardinality(signed) < MaxSigned
    /\ Authorized(until)
    /\ auth' = [at |-> "head", patch |-> p, until |-> until,
                expires |-> Min({until - now, SignFor})]
    /\ UNCHANGED <<now, object, evaluations, policy, inForce, signed, hstate,
                   policies, removals>>

\* create_presigned_patch_upload looks for the object first: the same patch is a
\* retry that already succeeded, another patch is refused. The call may fail too.
HeadUpload ==
    /\ auth.at = "head"
    /\ \/ object["private"] = Absent /\ auth' = [auth EXCEPT !.at = "sign"]
       \/ auth' = NoAuth
    /\ UNCHANGED <<now, object, evaluations, policy, inForce, signed, hstate,
                   policies, removals>>

\* Mutant: the URL lives as long as the authorization had left when it was verified.
SignedLifeAtVerify == auth.expires

\* The time left is read again after the storage was asked.
SignedLife == IF auth.until > now THEN Min({auth.expires, auth.until - now}) ELSE 0

\* The conditional upload is signed, unless the authorization ran out meanwhile.
SignUpload ==
    /\ auth.at = "sign"
    /\ signed' = IF SignedLife > 0
                 THEN signed \cup {[patch |-> auth.patch, until |-> now + SignedLife,
                                    auth |-> auth.until]}
                 ELSE signed
    /\ auth' = NoAuth
    /\ UNCHANGED <<now, object, evaluations, policy, inForce, hstate,
                   policies, removals>>

\* The miner's PUT (external): the signature fixes the checksum and If-None-Match,
\* and the storage refuses it once it has expired. Its answer may be lost.
Put(url) ==
    /\ now < url.until /\ object["private"] = Absent
    /\ object' = [object EXCEPT !["private"] = url.patch]
    /\ UNCHANGED <<now, evaluations, policy, inForce, auth, signed, hstate,
                   policies, removals>>

\* A bucket rule removes the private object (external).
RemovePrivate ==
    /\ object["private"] # Absent /\ removals < MaxRemovals
    /\ object' = [object EXCEPT !["private"] = Absent] /\ removals' = removals + 1
    /\ UNCHANGED <<now, evaluations, policy, inForce, auth, signed, hstate, policies>>

(***************************************************************************)
(* Disclosure.                                                             *)
(***************************************************************************)
\* A round that scored or disqualified the patch completes. The gate has fetched
\* the object and compared its hash before the submission could enter it.
Evaluate ==
    /\ evaluations # {} \/ object["private"] = Committed
    /\ evaluations' = evaluations \cup {now}
    /\ UNCHANGED <<now, object, policy, inForce, auth, signed, hstate,
                   policies, removals>>

\* set_patch_visibility, at any time.
SetPatchVisibility ==
    /\ policies < MaxPolicies /\ policies' = policies + 1
    /\ \E p \in Terms :
           p # policy /\ policy' = p /\ inForce' = inForce \cup p
    /\ UNCHANGED <<now, object, evaluations, auth, signed, hstate, removals>>

\* list_patch_evaluation_times: the first finalized evaluation.
EvaluatedAt == Min(evaluations)

\* patch_is_revealed: the terms are public and the delay after it has passed.
Revealed(terms) ==
    evaluations # {} /\ \E d \in terms : now >= EvaluatedAt + d

\* patch-availability and patch download read the campaign's terms with the row;
\* a private campaign is answered at once.
AskPatch(h) ==
    /\ hstate[h].at = "idle" /\ policy # {}
    /\ hstate' = [hstate EXCEPT ![h] = [Quiet EXCEPT !.at = "times", !.terms = policy]]
    /\ UNCHANGED <<now, object, evaluations, policy, inForce, auth, signed,
                   policies, removals>>

\* The evaluation times are a second read, and the decision is made on both.
ReadTimes(h) ==
    /\ hstate[h].at = "times"
    /\ hstate' = [hstate EXCEPT ![h] =
            IF Revealed(@.terms) THEN [@ EXCEPT !.at = "target"] ELSE Quiet]
    /\ UNCHANGED <<now, object, evaluations, policy, inForce, auth, signed,
                   policies, removals>>

\* The carryover copies the patch under the second campaign's prefix.
Carry(h) ==
    /\ hstate[h].at = "idle"
    /\ hstate' = [hstate EXCEPT ![h] = [Quiet EXCEPT !.at = "target", !.to = "carried"]]
    /\ UNCHANGED <<now, object, evaluations, policy, inForce, auth, signed,
                   policies, removals>>

\* publish_patch and copy_private_patch look at the target first: a copy that is
\* there ends the request, whatever has become of the private object.
HeadTarget(h) ==
    /\ hstate[h].at = "target"
    /\ hstate' = [hstate EXCEPT ![h] =
            IF object[@.to] = Absent THEN [@ EXCEPT !.at = "source"] ELSE Quiet]
    /\ UNCHANGED <<now, object, evaluations, policy, inForce, auth, signed,
                   policies, removals>>

\* The source must carry the checksum of the commitment.
SourceFits == object["private"] = Committed

HeadSource(h) ==
    /\ hstate[h].at = "source"
    /\ hstate' = [hstate EXCEPT ![h] =
            IF SourceFits THEN [@ EXCEPT !.at = "copy", !.etag = object["private"]] ELSE Quiet]
    /\ UNCHANGED <<now, object, evaluations, policy, inForce, auth, signed,
                   policies, removals>>

\* Mutant: the copy is not conditional on the ETag that was checked.
CopyObjectAny(h) ==
    /\ hstate[h].at = "copy"
    /\ object' = [object EXCEPT ![hstate[h].to] =
            IF object["private"] # Absent THEN object["private"] ELSE @]
    /\ hstate' = [hstate EXCEPT ![h] = Quiet]
    /\ UNCHANGED <<now, evaluations, policy, inForce, auth, signed, policies, removals>>

\* copy_object with CopySourceIfMatch: an object that was replaced since fails it.
CopyObject(h) ==
    /\ hstate[h].at = "copy"
    /\ object' = [object EXCEPT ![hstate[h].to] =
            IF object["private"] = hstate[h].etag THEN object["private"] ELSE @]
    /\ hstate' = [hstate EXCEPT ![h] = Quiet]
    /\ UNCHANGED <<now, evaluations, policy, inForce, auth, signed, policies, removals>>

\* A storage call fails: the request is answered 503 and may be repeated.
StorageFails(h) ==
    /\ hstate[h].at \in {"target", "source", "copy"}
    /\ hstate' = [hstate EXCEPT ![h] = Quiet]
    /\ UNCHANGED <<now, object, evaluations, policy, inForce, auth, signed,
                   policies, removals>>

NextPublication ==
    \/ Pass \/ HeadUpload \/ SignUpload \/ RemovePrivate \/ Evaluate \/ SetPatchVisibility
    \/ \E p \in SignedPatch, until \in 1..(MaxNow + AuthTtl) : VerifyUpload(p, until)
    \/ \E url \in signed : Put(url)
    \/ \E h \in Handler : \/ AskPatch(h) \/ ReadTimes(h) \/ Carry(h) \/ HeadTarget(h)
                          \/ HeadSource(h) \/ CopyObject(h) \/ StorageFails(h)

SpecPublication == InitPublication /\ [][NextPublication]_pubVars

\* A patch is in public storage only after a judged round and the delay of terms
\* that were in force: the terms and the evaluation times are two reads and the
\* copy comes later still, so a policy change may fall anywhere between.
PublicOnlyRevealed ==
    object["public"] # Absent => Revealed(inForce)

\* What the public and the carried copies hold is what the commitment names,
\* though the private object may be removed and uploaded again, with another
\* patch signed for the same UUID, between the check and the copy.
CopiesMatchCommitment ==
    \A k \in {"public", "carried"} : object[k] \in {Absent, Committed}

\* A signed upload lands only while the miner's authorization is valid, however
\* long the API waited for the storage before it signed, and never replaces an object.
PutAuthorized ==
    [][object'["private"] # object["private"] /\ object'["private"] # Absent =>
        /\ object["private"] = Absent
        /\ \E url \in signed : url.patch = object'["private"] /\ now < url.auth]_pubVars

\* Under terms that stand, a revealed patch stays revealed: judging it again in a
\* later round does not restart the clock.
RevealStands ==
    [][policy' = policy /\ Revealed(policy) => Revealed(policy)']_pubVars
=============================================================================
