------------------------------ MODULE Publish ------------------------------
(***************************************************************************)
(* The relay's write path: from an EVENT message to the OK that answers    *)
(* it, the NIP-40 garbage collector, and the start of the process on a     *)
(* database file that outlives it.                                         *)
(*                                                                         *)
(* The server is one thread: a handler runs to its end before the next     *)
(* message or timer is looked at.  But a handler is several autocommit     *)
(* statements, each of which can fail on its own, and the process can die  *)
(* between any two of them.  So a handler is modelled statement by         *)
(* statement, with the place it has reached in pc.                         *)
(***************************************************************************)
EXTENDS Storage, FiniteSets

CONSTANTS
  NoEvent,     \* no publication in progress
  Pubkey,      \* public keys of authors and of authenticated clients
  LowerLimit,  \* created_at_lower_limit, 0 disables it
  UpperLimit,  \* created_at_upper_limit, 0 disables it
  MinPow,      \* min_pow_difficulty, 0 disables it
  MaxPurge,    \* MAX_PURGE_ITERATIONS
  MaxNow,      \* bound on the clock
  Legacy,      \* the sets of events a database of an older version may hold
  Faults       \* what can go wrong: see FaultKinds

FaultKinds == {"read", "delete", "insert", "index", "mark", "crash"}

ASSUME NoEventIsNoEvent == NoEvent \notin Event
ASSUME LimitsAreNaturals ==
  LowerLimit \in Nat /\ UpperLimit \in Nat /\ MinPow \in Nat
ASSUME BoundsAreNaturals == MaxPurge \in Nat \ {0} /\ MaxNow \in Nat
ASSUME LegacyIsEvents == Legacy \subseteq SUBSET Event
ASSUME FaultsAreKinds == Faults \subseteq FaultKinds

VARIABLES
  now,     \* time(NULL)
  pc,      \* where the running handler stands
  cur,     \* the event being published
  todo,    \* what the running loop has left to visit
  failed,  \* nip09_delete_targets: some target failed
  result,  \* the nip01_process_result_t to answer with
  before   \* history: table event when the running publication began

jobVars == <<pc, cur, todo, failed, result, before>>
vars == <<event, delegation, backfilled, now, pc, cur, todo, failed, result, before>>

(***************************************************************************)
(* nip01_process_result_t.  msg is the machine-readable class of the text. *)
(***************************************************************************)
Results    == [accepted : BOOLEAN, should_broadcast : BOOLEAN,
               msg : {"", "invalid", "error", "duplicate", "deletion failed"}]
Accept     == [accepted |-> TRUE,  should_broadcast |-> TRUE,  msg |-> ""]
Reject(m)  == [accepted |-> FALSE, should_broadcast |-> FALSE, msg |-> m]
NoResult   == Reject("")

(* store_only: what the deletion listener makes of an accepted insert. *)
StoreOnly(f) == [accepted |-> TRUE, should_broadcast |-> FALSE,
                 msg |-> IF f THEN "deletion failed" ELSE ""]

(* The result of an insert that succeeded, by the listener that ran it. *)
InsertResult(ev, f) == IF ev.kind = DELETION THEN StoreOnly(f) ELSE Accept

(* Answer with r once the handler is done with the store. *)
Answering(r) == pc' = "reply" /\ result' = r /\ todo' = {}

-----------------------------------------------------------------------------
(***************************************************************************)
(* The checks that run before the store is touched: the accept_publish     *)
(* hooks of the plugins (NIP-40 expiry, NIP-42 "-" tag, NIP-13 work), then *)
(* nip01_process_event's own.  valid stands for check_event and the size   *)
(* limits, which read nothing but the event.                               *)
(***************************************************************************)
accept_publish(ev, auth) ==
  /\ ~nip40_event_is_expired(ev, now)
  /\ nip_event_has_named(ev, "-") => auth = ev.pubkey
  /\ nip13_meets_difficulty(ev, MinPow)

CreatedAtAcceptable(ev) ==
  /\ LowerLimit # 0 => ev.created_at >= now - LowerLimit
  /\ UpperLimit # 0 => ev.created_at <= now + UpperLimit

(***************************************************************************)
(* handle_event up to the listener: the event's kind decides which one     *)
(* takes it.  No two listeners share a kind.                               *)
(***************************************************************************)
Dispatch(ev) ==
  \/ /\ IsReplaceable(ev.kind) \/ IsAddressable(ev.kind)
     /\ pc' = "replace" /\ todo' = {} /\ UNCHANGED result
  \/ /\ ev.kind = DELETION
     /\ pc' = "targets" /\ todo' = DeletionTargets(ev) /\ UNCHANGED result
  \/ /\ ev.kind = VANISH /\ ~nip_event_has_named(ev, "relay")
     /\ Answering(Reject("invalid"))
  \/ /\ ev.kind = VANISH /\ nip_event_has_named(ev, "relay")
     /\ pc' = IF nip62_should_vanish(ev) THEN "vanish" ELSE "insert"
     /\ todo' = {} /\ UNCHANGED result
  \/ /\ IsEphemeral(ev.kind)
     /\ Answering(Accept)
  \/ /\ ~(IsReplaceable(ev.kind) \/ IsAddressable(ev.kind) \/ IsEphemeral(ev.kind))
     /\ ev.kind \notin {DELETION, VANISH}
     /\ pc' = "insert" /\ todo' = {} /\ UNCHANGED result

Receive(ev, auth, valid) ==
  /\ pc = "idle"
  /\ cur' = ev /\ failed' = FALSE /\ before' = event
  /\ IF ~accept_publish(ev, auth) \/ ~valid \/ ~CreatedAtAcceptable(ev)
     THEN Answering(Reject("invalid"))
     ELSE Dispatch(ev)
  /\ UNCHANGED <<storageVars, now>>

-----------------------------------------------------------------------------
(***************************************************************************)
(* NIP-01 replacement: delete the older versions, then insert.             *)
(***************************************************************************)
OlderVersions(ev) ==
  IF IsAddressable(ev.kind)
  THEN ByKindAndPubkeyAndDtag(ev.kind, ev.pubkey, DIdentifier(ev), ev.created_at)
  ELSE ByKindAndPubkey(ev.kind, ev.pubkey, ev.created_at)

Replace ==
  /\ pc = "replace"
  /\ DeleteRows(OlderVersions(cur))
  /\ pc' = "insert"
  /\ UNCHANGED <<now, cur, todo, failed, result, before>>

ReplaceFails ==
  /\ pc = "replace" /\ "delete" \in Faults
  /\ Answering(Reject("error"))
  /\ UNCHANGED <<storageVars, now, cur, failed, before>>

(* The scan of the addressable versions breaks off and passes for complete. *)
ReplaceMisread ==
  /\ pc = "replace" /\ IsAddressable(cur.kind) /\ "read" \in Faults
  /\ \E rows \in SUBSET OlderVersions(cur) : DeleteRows(rows)
  /\ pc' = "insert"
  /\ UNCHANGED <<now, cur, todo, failed, result, before>>

(***************************************************************************)
(* NIP-09: one referenced target at a time, in the order of the tags.      *)
(***************************************************************************)
IsNext(p) == \A q \in todo \ {p} : Precedes(p, q)

TargetIn(name, p) == cur.tags[p[1]][1] = name
TargetValue(p) == cur.tags[p[1]][p[2]]

(* The rows the "e" target id names, if its author and kind allow it. *)
AuthorizedTarget(id) ==
  {r \in event : /\ r.id = id
                 /\ deletion_authorized(cur, r)
                 /\ kind_is_requested(cur, r.kind)}

(* What the delete for an authorized "e" target selects. *)
EventTargetRows(id) ==
  UNION {IF r.kind = 1059 THEN ByIdAndKindAndPtag(id, 1059, cur.pubkey)
         ELSE ByIdAndPubkey(id, cur.pubkey) : r \in AuthorizedTarget(id)}

(* The "a" targets delete_a_target acts on. *)
IsOurs(a) ==
  /\ parse_a_tag_ok(a)
  /\ parse_a_tag(a).pubkey = cur.pubkey
  /\ kind_is_requested(cur, parse_a_tag(a).kind)

(* What the delete for such a target selects. *)
AddressTargetRows(a) ==
  LET t == parse_a_tag(a)
  IN  IF ~IsOurs(a) THEN {}
      ELSE IF t.d = "" THEN ByKindAndPubkey(t.kind, t.pubkey, cur.created_at)
      ELSE ByKindAndPubkeyAndDtag(t.kind, t.pubkey, t.d, cur.created_at)

(* delete_e_target: an authorized target that no row answers to failed. *)
DeleteEventTarget(p) ==
  /\ pc = "targets" /\ IsNext(p) /\ TargetIn("e", p)
  /\ LET id == TargetValue(p)
     IN  /\ DeleteRows(EventTargetRows(id))
         /\ failed' = (failed \/ (AuthorizedTarget(id) # {} /\ EventTargetRows(id) = {}))
  /\ todo' = todo \ {p}
  /\ UNCHANGED <<now, pc, cur, result, before>>

(* delete_a_target: finding nothing to delete is not a failure. *)
DeleteAddressTarget(p) ==
  /\ pc = "targets" /\ IsNext(p) /\ TargetIn("a", p)
  /\ DeleteRows(AddressTargetRows(TargetValue(p)))
  /\ todo' = todo \ {p}
  /\ UNCHANGED <<now, pc, cur, failed, result, before>>

(* Mutant: the failure is not remembered. *)
DeleteTargetFailsQuietly(p) ==
  /\ pc = "targets" /\ IsNext(p) /\ "delete" \in Faults
  /\ \/ TargetIn("e", p) /\ AuthorizedTarget(TargetValue(p)) # {}
     \/ TargetIn("a", p) /\ IsOurs(TargetValue(p))
  /\ todo' = todo \ {p}
  /\ UNCHANGED <<storageVars, now, pc, cur, failed, result, before>>

(* A delete statement fails; the loop goes on with the next target. *)
DeleteTargetFails(p) ==
  /\ pc = "targets" /\ IsNext(p) /\ "delete" \in Faults
  /\ \/ TargetIn("e", p) /\ AuthorizedTarget(TargetValue(p)) # {}
     \/ TargetIn("a", p) /\ IsOurs(TargetValue(p))
  /\ failed' = TRUE
  /\ todo' = todo \ {p}
  /\ UNCHANGED <<storageVars, now, pc, cur, result, before>>

(* A target that cannot be read passes for one the relay does not know, or *)
(* a gift wrap for one whose recipient is another.                         *)
EventTargetMisread(p) ==
  /\ pc = "targets" /\ IsNext(p) /\ "read" \in Faults /\ TargetIn("e", p)
  /\ \/ failed' = failed
     \/ failed' = TRUE /\ \E r \in AuthorizedTarget(TargetValue(p)) : r.kind = 1059
  /\ todo' = todo \ {p}
  /\ UNCHANGED <<storageVars, now, pc, cur, result, before>>

(* The scan for an identifier breaks off and passes for complete. *)
AddressTargetMisread(p) ==
  /\ pc = "targets" /\ IsNext(p) /\ "read" \in Faults /\ TargetIn("a", p)
  /\ IsOurs(TargetValue(p)) /\ parse_a_tag(TargetValue(p)).d # ""
  /\ \E rows \in SUBSET AddressTargetRows(TargetValue(p)) : DeleteRows(rows)
  /\ todo' = todo \ {p}
  /\ UNCHANGED <<now, pc, cur, failed, result, before>>

(* Mutant: after a failure the request itself is turned away. *)
TargetsDoneUnlessFailed ==
  /\ pc = "targets" /\ todo = {}
  /\ IF failed THEN Answering(Reject("error")) ELSE pc' = "insert" /\ UNCHANGED <<todo, result>>
  /\ UNCHANGED <<storageVars, now, cur, failed, before>>

TargetsDone ==
  /\ pc = "targets" /\ todo = {}
  /\ pc' = "insert"
  /\ UNCHANGED <<storageVars, now, cur, todo, failed, result, before>>

(***************************************************************************)
(* NIP-62: everything its author wrote up to then, but vanish requests.    *)
(***************************************************************************)
Vanish ==
  /\ pc = "vanish"
  /\ DeleteRows(ByPubkeyUpTo(cur.pubkey, cur.created_at, cur.kind))
  /\ pc' = "insert"
  /\ UNCHANGED <<now, cur, todo, failed, result, before>>

VanishFails ==
  /\ pc = "vanish" /\ "delete" \in Faults
  /\ Answering(Reject("error"))
  /\ UNCHANGED <<storageVars, now, cur, failed, before>>

(***************************************************************************)
(* insert_record: the row, then one index entry for each delegation tag.   *)
(* Whatever keeps the row out is answered as a duplicate.                  *)
(***************************************************************************)
Insert ==
  /\ pc = "insert"
  /\ InsertRow(cur)
  /\ pc' = "index" /\ todo' = IndexEntries(cur)
  /\ UNCHANGED <<now, cur, failed, result, before>>

(* Mutant: a failed insert is answered as if it had worked. *)
InsertRefusedUnnoticed ==
  /\ pc = "insert"
  /\ cur.id \in Ids(event) \/ "insert" \in Faults
  /\ Answering(Accept)
  /\ UNCHANGED <<storageVars, now, cur, failed, before>>

InsertRefused ==
  /\ pc = "insert"
  /\ cur.id \in Ids(event) \/ "insert" \in Faults
  /\ Answering(Reject("duplicate"))
  /\ UNCHANGED <<storageVars, now, cur, failed, before>>

(* Mutant: the first delegation tag ends the loop. *)
IndexFirst ==
  /\ pc = "index"
  /\ \E entry \in todo : IndexDelegator(entry)
  /\ todo' = {}
  /\ UNCHANGED <<now, pc, cur, failed, result, before>>

Index ==
  /\ pc = "index"
  /\ \E entry \in todo : IndexDelegator(entry) /\ todo' = todo \ {entry}
  /\ UNCHANGED <<now, pc, cur, failed, result, before>>

(* A failed index entry is only logged. *)
IndexFails ==
  /\ pc = "index" /\ "index" \in Faults
  /\ \E entry \in todo : todo' = todo \ {entry}
  /\ UNCHANGED <<storageVars, now, pc, cur, failed, result, before>>

Indexed ==
  /\ pc = "index" /\ todo = {}
  /\ Answering(InsertResult(cur, failed))
  /\ UNCHANGED <<storageVars, now, cur, failed, before>>

(* The OK goes out, an accepted event is broadcast, the handler returns. *)
Reply ==
  /\ pc = "reply"
  /\ pc' = "idle" /\ cur' = NoEvent /\ failed' = FALSE /\ result' = NoResult
  /\ UNCHANGED <<storageVars, now, todo, before>>

-----------------------------------------------------------------------------
(***************************************************************************)
(* The NIP-40 collector, run by the plugin timer.  The scan follows the    *)
(* index on created_at, newest first, and gives up after MaxPurge rows.    *)
(***************************************************************************)
PurgeScans(rows) ==
  {scan \in SUBSET rows :
     /\ Cardinality(scan) <= MaxPurge
     /\ scan = rows \/ Cardinality(scan) = MaxPurge
     /\ \A r \in scan, s \in rows \ scan : r.created_at >= s.created_at}

PurgeBegin ==
  /\ pc = "idle"
  /\ PurgeCandidates(now) # {}
  /\ pc' = "purge" /\ before' = event
  /\ todo' \in PurgeScans(PurgeCandidates(now))
  /\ UNCHANGED <<storageVars, now, cur, failed, result>>

(* Mutant: only the first expiration tag is looked at. *)
PurgeRowByFirstTag ==
  /\ pc = "purge"
  /\ \E r \in todo :
       /\ \A s \in todo : r.created_at >= s.created_at
       /\ LET dates == TagsNamed(r, "expiration")
              first == CHOOSE i \in dates : \A j \in dates : i <= j
          IN  DeleteRows({q \in ByIdAndPubkey(r.id, r.pubkey) :
                            dates # {} /\ r.tags[first][2] <= now})
       /\ todo' = todo \ {r}
  /\ UNCHANGED <<now, pc, cur, failed, result, before>>

(* Mutant: a row that speaks of an expiration is taken for expired. *)
PurgeRowUnread ==
  /\ pc = "purge"
  /\ \E r \in todo :
       /\ \A s \in todo : r.created_at >= s.created_at
       /\ DeleteRows(ByIdAndPubkey(r.id, r.pubkey))
       /\ todo' = todo \ {r}
  /\ UNCHANGED <<now, pc, cur, failed, result, before>>

(* One row of the scan: read it again, and delete it if it has expired. *)
PurgeRow ==
  /\ pc = "purge"
  /\ \E r \in todo :
       /\ \A s \in todo : r.created_at >= s.created_at
       /\ DeleteRows({q \in ByIdAndPubkey(r.id, r.pubkey) : nip40_event_is_expired(q, now)})
       /\ todo' = todo \ {r}
  /\ UNCHANGED <<now, pc, cur, failed, result, before>>

(* The row cannot be read again or deleted: it waits for the next sweep. *)
PurgeRowFails ==
  /\ pc = "purge" /\ Faults \cap {"read", "delete"} # {}
  /\ \E r \in todo : todo' = todo \ {r}
  /\ UNCHANGED <<storageVars, now, pc, cur, failed, result, before>>

PurgeEnd ==
  /\ pc = "purge" /\ todo = {}
  /\ pc' = "idle"
  /\ UNCHANGED <<storageVars, now, cur, todo, failed, result, before>>

-----------------------------------------------------------------------------
(***************************************************************************)
(* The process stops between two handlers (SIGINT) or dies anywhere (a     *)
(* crash); what was committed stays.  storage_init then opens the file     *)
(* and, on a database never migrated, indexes the delegations it holds.    *)
(***************************************************************************)
(* Mutant: work of the process that died is taken up by the next. *)
GoDownKeepingWork ==
  /\ pc' = "down"
  /\ cur' = NoEvent /\ failed' = FALSE /\ result' = NoResult
  /\ UNCHANGED <<storageVars, now, todo, before>>

GoDown ==
  /\ pc' = "down" /\ todo' = {}
  /\ cur' = NoEvent /\ failed' = FALSE /\ result' = NoResult
  /\ UNCHANGED <<storageVars, now, before>>

Stop  == pc = "idle" /\ GoDown
Crash == pc \notin {"idle", "down"} /\ "crash" \in Faults /\ GoDown

(* A database without the mark is migrated, unless the mark is unreadable. *)
Start ==
  /\ pc = "down"
  /\ \/ /\ ~backfilled
        /\ pc' = "backfill" /\ todo' = UNION {IndexEntries(r) : r \in MigrationCandidates}
     \/ /\ backfilled \/ "read" \in Faults
        /\ pc' = "idle" /\ todo' = {}
  /\ UNCHANGED <<storageVars, now, cur, failed, result, before>>

Backfill ==
  /\ pc = "backfill"
  /\ \E entry \in todo : IndexDelegator(entry) /\ todo' = todo \ {entry}
  /\ UNCHANGED <<now, pc, cur, failed, result, before>>

(* An entry is lost ("index"), or what is left of the scan is ("read"). *)
BackfillFails ==
  /\ pc = "backfill" /\ todo # {}
  /\ \/ "index" \in Faults /\ \E entry \in todo : todo' = todo \ {entry}
     \/ "read" \in Faults /\ todo' = {}
  /\ UNCHANGED <<storageVars, now, pc, cur, failed, result, before>>

(* The migration is over whether or not its scan went well. *)
BackfillDone ==
  /\ pc = "backfill" /\ todo = {}
  /\ MarkBackfilled
  /\ pc' = "idle"
  /\ UNCHANGED <<now, cur, todo, failed, result, before>>

(* The mark is not written: the next start migrates again. *)
MarkFails ==
  /\ pc = "backfill" /\ todo = {} /\ "mark" \in Faults
  /\ pc' = "idle"
  /\ UNCHANGED <<storageVars, now, cur, todo, failed, result, before>>

Tick ==
  /\ now < MaxNow
  /\ now' = now + 1
  /\ UNCHANGED <<storageVars, jobVars>>

-----------------------------------------------------------------------------
Init ==
  /\ \E old \in Legacy : event = {Row(ev) : ev \in old}
  /\ delegation = {} /\ backfilled = FALSE
  /\ now = 0
  /\ pc = "down" /\ cur = NoEvent /\ todo = {} /\ failed = FALSE
  /\ result = NoResult /\ before = event

Listener ==
  \/ Replace \/ ReplaceFails \/ ReplaceMisread
  \/ \E p \in todo : \/ DeleteEventTarget(p) \/ DeleteAddressTarget(p)
                     \/ DeleteTargetFails(p)
                     \/ EventTargetMisread(p) \/ AddressTargetMisread(p)
  \/ TargetsDone
  \/ Vanish \/ VanishFails
  \/ Insert \/ InsertRefused \/ Index \/ IndexFails \/ Indexed
  \/ Reply

Purge == PurgeBegin \/ PurgeRow \/ PurgeRowFails \/ PurgeEnd

Migration == Backfill \/ BackfillFails \/ BackfillDone \/ MarkFails

Lifecycle == Stop \/ Crash \/ Start \/ Migration

Next ==
  \/ \E ev \in Event, auth \in Pubkey \cup {""}, valid \in BOOLEAN : Receive(ev, auth, valid)
  \/ Listener
  \/ Purge
  \/ Lifecycle
  \/ Tick

Spec == Init /\ [][Next]_vars

-----------------------------------------------------------------------------
(***************************************************************************)
(* Fairness, for the liveness properties alone: the event loop runs the    *)
(* handler it has entered to its end, as storage_init runs to its own, and *)
(* looks at its timers in every turn, so a sweep that is due is not put    *)
(* off for ever by the messages that arrive.  Clients, the clock, and      *)
(* restarts owe nothing.                                                   *)
(***************************************************************************)
Fairness ==
  /\ WF_vars(Listener) /\ WF_vars(Migration)
  /\ WF_vars(PurgeRow \/ PurgeEnd)
  /\ SF_vars(PurgeBegin)

FairSpec == Spec /\ Fairness

-----------------------------------------------------------------------------
(***************************************************************************)
(* The promise this module implements, and the authority it is about.      *)
(***************************************************************************)
Verdict ==
  IF pc # "reply" THEN "none" ELSE IF result.accepted THEN "accepted" ELSE "refused"

Promise == INSTANCE EventStore WITH rows <- Stored, pending <- cur, verdict <- Verdict

(***************************************************************************)
(* Every step of the write path is a step of the promise: nothing leaves   *)
(* the table but by the authority of the event being published or by       *)
(* expiry, nothing enters but that event, and OK true is never said of an  *)
(* event that is not in the table (handle_event, server.c:350).            *)
(***************************************************************************)
KeepsPromise == Promise!StoreSpec

Steps == {"down", "backfill", "idle", "replace", "targets", "vanish",
          "insert", "index", "reply", "purge"}

(***************************************************************************)
(* The steps of one publication, from Receive to Reply, are the states in  *)
(* which an event is being published.                                      *)
(***************************************************************************)
Publishing == pc \notin {"down", "backfill", "idle", "purge"}

TodoOK ==
  /\ pc = "targets" => todo \subseteq DeletionTargets(cur)
  /\ pc = "index" => todo \subseteq IndexEntries(cur)
  /\ pc = "backfill" => todo \subseteq UNION {IndexEntries(r) : r \in event}
  /\ pc = "purge" => todo \subseteq before
  /\ pc \notin {"targets", "index", "backfill", "purge"} => todo = {}

(***************************************************************************)
(* Types of the variables, and of the work left in each loop.              *)
(***************************************************************************)
TypeOK ==
  /\ StorageTypeOK
  /\ now \in 0..MaxNow
  /\ pc \in Steps
  /\ cur \in IF Publishing THEN Event ELSE {NoEvent}
  /\ TodoOK
  /\ failed \in BOOLEAN
  /\ result \in Results
  /\ before \subseteq {Row(ev) : ev \in Event}

(***************************************************************************)
(* An unqualified OK true means the event had its full effect: no event    *)
(* that it supersedes, asks to delete or makes vanish is still held        *)
(* (nip01.c:157, nip09.c:15, nip62.c:33).                                  *)
(***************************************************************************)
RequestHonoured ==
  pc = "reply" /\ result.accepted /\ result.msg = "" =>
    \A f \in Stored : ~Promise!Authorises(cur, f)

(***************************************************************************)
(* What a publication removed is owed to an event the relay holds: when    *)
(* the handler is over, accepted or not, every row it took away is         *)
(* superseded, deleted or vanished by an event in the table.  Deleting     *)
(* before inserting (nip01.c:179-183, nip09.c:204-206, nip62.c:36-44) can  *)
(* leave neither.                                                          *)
(***************************************************************************)
RemovalIsOwed ==
  pc = "reply" =>
    \A r \in before \ event : \E s \in Stored : Promise!Authorises(s, r)

(***************************************************************************)
(* Between handlers a migrated database has every delegation tag of every  *)
(* row in the index {authors} queries rely on (storage.c:1255-1316).       *)
(***************************************************************************)
DelegationComplete ==
  pc = "idle" /\ backfilled => \A r \in event : IndexEntries(r) \subseteq delegation

(***************************************************************************)
(* An expired event is removed in the end (storage.h:149-152, "Deletes     *)
(* every stored event whose expiration ... so that already-accepted events *)
(* don't linger in the database forever"), unless the relay goes down.     *)
(***************************************************************************)
ExpiredSwept ==
  \A ev \in Event :
    (/\ ev \in Stored
     /\ nip40_event_is_expired(ev, now)
     /\ ev.created_at <= now) ~> (ev \notin Stored \/ pc = "down")

-----------------------------------------------------------------------------
(***************************************************************************)
(* What comments and documents of the repository say and the code does     *)
(* not do.                                                                 *)
(***************************************************************************)

(***************************************************************************)
(* An accepted deletion request removes the events it names by id that     *)
(* were published on behalf of its author (nip09.c:122-125, "the delegator *)
(* may delete events published by their delegatee").                       *)
(***************************************************************************)
DelegatorDeletes ==
  pc = "reply" /\ cur.kind = DELETION /\ result.accepted =>
    {f \in Stored : /\ f.id \in Promise!Named(cur, "e")
                    /\ kind_is_requested(cur, f.kind)
                    /\ cur.pubkey \in Delegators(f)} = {}
=============================================================================
