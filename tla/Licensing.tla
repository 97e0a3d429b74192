----------------------------- MODULE Licensing -----------------------------
(***************************************************************************)
(* The licence of one installation: the row, the two cached copies the     *)
(* kill switch reads, heartbeats to the control centre and registration.   *)
(*                                                                         *)
(* License.save deletes both cached copies, but heartbeats and setup call  *)
(* it inside a transaction: until that commits, a request that finds the   *)
(* cache empty fills it with the old row.  A request reads the row in one  *)
(* step and fills the caches in another.                                   *)
(*                                                                         *)
(* There is no clock: what is as old as it can matter stays that old, and  *)
(* a tick ages everything.  Heartbeats are the daemon's and those of       *)
(* heartbeat_daemon --once; requests and open transactions are shorter     *)
(* than a tick.                                                            *)
(***************************************************************************)
EXTENDS Integers, FiniteSets

CONSTANTS
  Beats,      \* heartbeat processes
  Setups,     \* setup requests; each is given a key of its own
  Requests,   \* requests that pass the kill switch
  Ttl,        \* LICENSE_STATE_CACHE_TTL, in ticks
  Grace,      \* ticks for which an answer serves: to the end of the offline grace
              \* or of the term it names, whichever comes first
  Patience,   \* ticks an HTTP call may take
  MaxFaults   \* bound: changes of standing and of the Fernet key

ASSUME LicensingAssumption ==
  /\ {Ttl, Grace, Patience} \subseteq Nat \ {0} /\ MaxFaults \in Nat
  /\ Patience < Grace

VARIABLES
  standing,   \* what the control centre would answer now
  fernet,     \* the stored key can be decrypted
  row,        \* the committed License row
  unsaved,    \* the row of the open transaction, or None
  rowCache,   \* license:row:v1: a copy and its age, or None
  stateCache, \* license:state:v1
  beat,       \* beat[h]: the heartbeat h has under way
  setup,      \* setup[s]
  web,        \* web[w]: the request w and its reading of the row
  overdue,    \* ghost: ticks since the committed row stopped allowing requests
  late,       \* ghost: overdue for the last request, if it was served
  faults

licenseVars == <<standing, fernet, row, unsaved, rowCache, stateCache, beat, setup,
                 web, overdue, late, faults>>

None == [none |-> TRUE]
NoKey == "none"
NeverBeat == Grace + 1

Upto(n, bound) == IF n < bound THEN n + 1 ELSE bound

(* age: ticks since the last answer that was applied, by the control       *)
(* centre's clock.                                                         *)
Unregistered == [status |-> "UNREGISTERED", age |-> NeverBeat, key |-> NoKey]

LicenseInit ==
  /\ standing = "ACTIVE" /\ fernet = TRUE
  /\ row = Unregistered /\ unsaved = None
  /\ rowCache = None /\ stateCache = None
  /\ beat = [h \in Beats |-> [step |-> "idle"]]
  /\ setup = [s \in Setups |-> "idle"]
  /\ web = [w \in Requests |-> [step |-> "idle"]]
  /\ overdue = 0 /\ late = 0 /\ faults = 0

-----------------------------------------------------------------------------
(* LicenseState.is_blocked.                                                *)
IsBlocked(r) == r.status # "ACTIVE" \/ r.age > Grace

NoTransaction == unsaved = None

(* save(): the new row waits for the commit, the caches are empty already. *)
Save(r) ==
  /\ unsaved' = r
  /\ rowCache' = None /\ stateCache' = None

Commit ==
  /\ unsaved # None
  /\ row' = unsaved /\ unsaved' = None
  /\ overdue' = IF IsBlocked(unsaved) THEN overdue ELSE 0
  /\ UNCHANGED <<standing, fernet, rowCache, stateCache, beat, setup, web, late, faults>>

(* What decides of a row (build_from_license).                             *)
State(r) == [status |-> r.status, age |-> r.age]

(* License.load: the cached row, or the committed one, which is cached.    *)
Loaded == IF rowCache # None THEN rowCache.copy ELSE State(row)
Load == rowCache' = IF rowCache # None THEN rowCache ELSE [copy |-> State(row), age |-> 0]

-----------------------------------------------------------------------------
(* Registration.                                                           *)

(* The view asks for a key when the licence it loads is unregistered.      *)
AskForKey(s) ==
  /\ setup[s] = "idle"
  /\ Load
  /\ Loaded.status = "UNREGISTERED"
  /\ setup' = [setup EXCEPT ![s] = "asked"]
  /\ UNCHANGED <<standing, fernet, row, unsaved, stateCache, beat, web, overdue, late, faults>>

MayRegister == row.status = "UNREGISTERED"

(* The key arrives; under the row's lock the status is checked again.      *)
Register(s) ==
  /\ setup[s] = "asked" /\ NoTransaction
  /\ setup' = [setup EXCEPT ![s] = "done"]
  /\ IF MayRegister
       THEN Save([status |-> "ACTIVE", age |-> 0, key |-> s])
       ELSE UNCHANGED <<unsaved, rowCache, stateCache>>
  /\ UNCHANGED <<standing, fernet, row, beat, web, overdue, late, faults>>

-----------------------------------------------------------------------------
(* Heartbeats.                                                             *)

(* An unregistered installation sends nothing.                             *)
Send(h) ==
  /\ beat[h].step = "idle"
  /\ Load
  /\ Loaded.status # "UNREGISTERED" /\ fernet
  /\ beat' = [beat EXCEPT ![h] = [step |-> "sent", waits |-> 0]]
  /\ UNCHANGED <<standing, fernet, row, unsaved, stateCache, setup, web, overdue, late, faults>>

(* The stored key cannot be read: fail closed.                             *)
SendUnreadable(h) ==
  /\ beat[h].step = "idle" /\ NoTransaction
  /\ Loaded.status # "UNREGISTERED" /\ ~fernet
  /\ IF row.status # "SUSPENDED"
       THEN Save([row EXCEPT !.status = "SUSPENDED"])
       ELSE Load /\ UNCHANGED <<unsaved, stateCache>>
  /\ UNCHANGED <<standing, fernet, row, beat, setup, web, overdue, late, faults>>

(* The control centre answers with its view and its clock; a revoked key   *)
(* is refused (401, 410).                                                  *)
Answer(h) ==
  /\ beat[h].step = "sent"
  /\ beat' = [beat EXCEPT ![h] = [step |-> "answered", waits |-> @.waits, status |-> standing,
                                  age |-> 0]]
  /\ UNCHANGED <<standing, fernet, row, unsaved, rowCache, stateCache, setup, web, overdue,
                 late, faults>>

(* A lost call, a 5xx, an answer that cannot be read or is not signed, or  *)
(* the end of the process: the licence stays as it is.                     *)
LoseBeat(h) ==
  /\ beat[h].step # "idle"
  /\ beat' = [beat EXCEPT ![h] = [step |-> "idle"]]
  /\ UNCHANGED <<standing, fernet, row, unsaved, rowCache, stateCache, setup, web, overdue,
                 late, faults>>

(* Mutant: answers are applied in the order in which they arrive.          *)
IsStaleNever(a) == FALSE

(* The answer is no newer, by the control centre's clock, than the one     *)
(* applied last.                                                           *)
IsStale(a) == a.age >= row.age

ApplyHeartbeat(h) ==
  LET a == beat[h] IN
  /\ a.step = "answered" /\ NoTransaction
  /\ beat' = [beat EXCEPT ![h] = [step |-> "idle"]]
  /\ CASE a.status = "REVOKED" -> Save([row EXCEPT !.status = "SUSPENDED"])
       [] a.status # "REVOKED" /\ IsStale(a) -> UNCHANGED <<unsaved, rowCache, stateCache>>
       [] OTHER -> Save([row EXCEPT !.status = a.status, !.age = a.age])
  /\ UNCHANGED <<standing, fernet, row, setup, web, overdue, late, faults>>

-----------------------------------------------------------------------------
(* The kill switch.                                                        *)

Decide(w, state) ==
  /\ web' = [web EXCEPT ![w] = [step |-> "idle"]]
  /\ late' = IF IsBlocked(state) THEN 0 ELSE overdue

Hit(w) ==
  /\ web[w].step = "idle" /\ stateCache # None
  /\ Decide(w, stateCache.copy)
  /\ UNCHANGED <<standing, fernet, row, unsaved, rowCache, stateCache, beat, setup, overdue,
                 faults>>

Miss(w) ==
  /\ web[w].step = "idle" /\ stateCache = None
  /\ web' = [web EXCEPT ![w] = [step |-> "read", copy |-> Loaded,
                                cached |-> rowCache # None]]
  /\ UNCHANGED <<standing, fernet, row, unsaved, rowCache, stateCache, beat, setup, overdue,
                 late, faults>>

(* Whatever was deleted in between is filled again with what was read.     *)
Fill(w) ==
  /\ web[w].step = "read"
  /\ rowCache' = IF web[w].cached THEN rowCache ELSE [copy |-> web[w].copy, age |-> 0]
  /\ stateCache' = [copy |-> web[w].copy, age |-> 0]
  /\ Decide(w, web[w].copy)
  /\ UNCHANGED <<standing, fernet, row, unsaved, beat, setup, overdue, faults>>

-----------------------------------------------------------------------------
(* The vendor and the time.                                                *)

ChangeStanding ==
  /\ faults < MaxFaults /\ faults' = faults + 1
  /\ standing' \in {"ACTIVE", "SUSPENDED", "EXPIRED", "REVOKED"} \ {standing}
  /\ UNCHANGED <<fernet, row, unsaved, rowCache, stateCache, beat, setup, web, overdue, late>>

RotateFernet ==
  /\ fernet /\ faults < MaxFaults
  /\ fernet' = FALSE /\ faults' = faults + 1
  /\ UNCHANGED <<standing, row, unsaved, rowCache, stateCache, beat, setup, web, overdue, late>>

Older(r) == [r EXCEPT !.age = Upto(@, NeverBeat)]

Ages(c) ==
  IF c = None \/ c.age + 1 >= Ttl THEN None ELSE [copy |-> Older(c.copy), age |-> c.age + 1]

Passing(a) ==
  CASE a.step = "sent" -> [a EXCEPT !.waits = @ + 1]
    [] a.step = "answered" -> [step |-> "answered", waits |-> a.waits + 1, status |-> a.status,
                               age |-> a.age + 1]
    [] OTHER -> a

Tick ==
  /\ NoTransaction
  /\ \A w \in Requests : web[w].step = "idle"
  /\ \A h \in Beats : beat[h].step # "idle" => beat[h].waits < Patience
  /\ row' = Older(row)
  /\ rowCache' = Ages(rowCache) /\ stateCache' = Ages(stateCache)
  /\ beat' = [h \in Beats |-> Passing(beat[h])]
  /\ overdue' = IF IsBlocked(Older(row)) THEN Upto(overdue, 2 * Ttl) ELSE 0
  /\ UNCHANGED <<standing, fernet, unsaved, setup, web, late, faults>>

-----------------------------------------------------------------------------
Beating(h) == Send(h) \/ SendUnreadable(h) \/ Answer(h) \/ LoseBeat(h) \/ ApplyHeartbeat(h)
Serving(w) == Hit(w) \/ Miss(w) \/ Fill(w)
Registering(s) == AskForKey(s) \/ Register(s)

LicenseNext ==
  \/ Commit \/ ChangeStanding \/ RotateFernet \/ Tick
  \/ \E h \in Beats : Beating(h)
  \/ \E s \in Setups : Registering(s)
  \/ \E w \in Requests : Serving(w)

LicenseSpec == LicenseInit /\ [][LicenseNext]_licenseVars

-----------------------------------------------------------------------------
(* Properties.                                                             *)

(* However commits, deletions of the caches and requests fall, a request   *)
(* is served at most two cache lifetimes after the row stopped allowing    *)
(* it: a stale row may be cached for one, and a state built from it for    *)
(* another, and neither is there after its last tick.  Meanwhile the       *)
(* applied answer moves forward by the control centre's clock, and the key *)
(* of the first registration is never replaced, in whatever order answers  *)
(* of heartbeats and of concurrent setups arrive.                          *)
ServedInTime == late <= 2 * (Ttl - 1)

LicenceHolds ==
  [][/\ ServedInTime'
     /\ row.key # NoKey => row'.key = row.key
     /\ row'.age <= row.age \/ row' = Older(row)]_<<row, late>>

=============================================================================
