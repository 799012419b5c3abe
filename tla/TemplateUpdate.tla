--------------------------- MODULE TemplateUpdate ---------------------------
(***************************************************************************)
(* How the simplevm client keeps the research environment templates up to  *)
(* date: Template.update_playbooks, which the constructor runs once before *)
(* the server starts and ForcConnector.update_templates runs every few     *)
(* hours in a thread of the scheduler (one job at a time), provided no     *)
(* playbook is active.                                                     *)
(*                                                                         *)
(* The update replaces the directory plays/resenvs, which survives a       *)
(* restart, and then the tables kept in memory.  Request threads read all  *)
(* of it without a lock; Template.is_locked only delays a deploy.          *)
(***************************************************************************)
EXTENDS Integers, FiniteSets

CONSTANTS
  ForcEditions, \* metadata of a template that needs FORC, old or new
  Templates,    \* template names, those in NO_TEMPLATE_NAMES left out
  VMs,          \* keys of ForcConnector.active_playbooks
  NoVM,         \* the loop over active_playbooks is between two keys
  MaxRetries,   \* update_templates: max_retries = 5
  MaxUpdates    \* bound on the updates run

ASSUME TemplateAssumption ==
  /\ ForcEditions \cap {"absent", "broken", "plain"} = {}
  /\ NoVM \notin VMs
  /\ IsFiniteSet(VMs)
  /\ MaxRetries \in Nat
  /\ MaxUpdates \in Nat \ {0}

VARIABLES
  resenvs,      \* what plays/resenvs holds
  allTemplates, \* Template._all_templates
  offered,      \* how often _allowed_forc_templates lists each template
  loaded,       \* Template._loaded_resenv_metadata
  forcAllowed,  \* Template._forc_allowed
  isLocked,     \* Template.is_locked
  serving,      \* Template.__init__ is over, the server accepts requests
  upc,          \* the update thread: next step,
  archive,      \*   the archive it extracted,
  todo,         \*   templates the present loop still has to visit,
  parsed,       \*   templates whose metadata it has parsed,
  tries,        \*   times it found a playbook active,
  size, left,   \*   in is_any_playbook_active, the size the dictionary must
                \*   keep and the keys the iterator still expects to give,
  seen, id,     \*   the keys it has given and the one in hand
  updates,      \* updates run so far
  changed,      \* have the keys changed since that loop began?
  registered,   \* the keys of active_playbooks
  recorded      \* the VMs that have a Redis hash

tables  == <<allTemplates, offered, loaded, forcAllowed>>
loop    == <<size, left, seen, id, changed>>
work    == <<archive, todo, parsed, updates>>
environ == <<registered, recorded>>
own     == <<resenvs, tables, serving, upc, work, tries, size, left, seen, id>>
uvars   == <<own, changed, isLocked, environ>>

-----------------------------------------------------------------------------
(* Values.  A template is absent, or has metadata that cannot be parsed,   *)
(* that needs no FORC, or that does, in one of several editions.           *)

Editions == {"broken", "plain"} \cup ForcEditions
Contents == [Templates -> Editions \cup {"absent"}]
Empty == [t \in Templates |-> "absent"]
Present(c) == {t \in Templates : c[t] # "absent"}

(* The entry of _forc_allowed: none, an empty list, or the versions that   *)
(* FORC knows, the highest first (get_template_version_for).               *)
Entries == {"none", "empty", "versions"}

LookSteps   == {"ask_redis", "look_up"}
CheckSteps  == {"check"} \cup LookSteps
UpdateSteps == {"download", "remove", "move", "copy", "list", "load",
                "forc", "store", "done", "failed"}
UpdatePCs   == {"idle", "lock"} \cup CheckSteps \cup UpdateSteps

-----------------------------------------------------------------------------
UInit ==
  /\ resenvs = Empty
  /\ allTemplates = {}
  /\ offered = [t \in Templates |-> 0]
  /\ loaded = Empty
  /\ forcAllowed = [t \in Templates |-> "none"]
  /\ isLocked = FALSE
  /\ serving = FALSE
  /\ upc = "lock"
  /\ archive = Empty
  /\ todo = {}
  /\ parsed = {}
  /\ tries = 0
  /\ size = 0 /\ left = 0 /\ seen = {} /\ id = NoVM
  /\ changed = FALSE
  /\ updates = 0
  /\ registered = {}
  /\ recorded = {}

UGoto(s) == upc' = s

(* is_any_playbook_active is left, and its iterator is gone.               *)
LeaveLoop ==
  /\ size' = 0 /\ left' = 0 /\ seen' = {} /\ id' = NoVM
  /\ changed' = FALSE

-----------------------------------------------------------------------------
(* Mutants: what the named action would be with a plausible bug.  They are *)
(* not part of the specification.                                          *)

(* FoundActive that compares with <= and so waits once too often.          *)
RetryOnceMore ==
  /\ LeaveLoop
  /\ tries <= MaxRetries
  /\ tries' = tries + 1
  /\ UGoto("check")

(* FoundActive without the limit.                                          *)
RetryForever == LeaveLoop /\ UGoto("check") /\ UNCHANGED tries

(* FoundActive that updates anyway when the last look finds a playbook.    *)
UpdateAnyway ==
  /\ LeaveLoop
  /\ \/ /\ tries < MaxRetries
        /\ tries' = tries + 1
        /\ UGoto("check")
     \/ /\ tries = MaxRetries
        /\ UGoto("lock")
        /\ UNCHANGED tries

(* Remove that clears only what the new archive brings again.              *)
RemoveReplaced ==
  /\ upc = "remove"
  /\ resenvs' = [t \in Templates |->
                  IF archive[t] = "absent" THEN resenvs[t] ELSE "absent"]
  /\ todo' = {}
  /\ UGoto("move")
  /\ UNCHANGED <<tables, isLocked, serving, archive, parsed,
                 updates, tries, loop, environ>>

(* List that unlocks as soon as the files are in place.                    *)
ListAndUnlock ==
  /\ upc = "list"
  /\ allTemplates' = Present(resenvs)
  /\ todo' = Present(resenvs)
  /\ parsed' = {}
  /\ isLocked' = FALSE
  /\ UGoto("load")
  /\ UNCHANGED <<resenvs, offered, loaded, forcAllowed, serving, archive,
                 updates, tries, loop, environ>>

(* AskForc that stores the metadata before FORC has answered.              *)
StoreBeforeAsking ==
  /\ upc = "forc"
  /\ \/ \E t \in todo :
          /\ parsed' = parsed \ {t}
          /\ IF resenvs[t] \in ForcEditions
             THEN /\ loaded' = [loaded EXCEPT ![t] = resenvs[t]]
                  /\ UGoto("store")
                  /\ UNCHANGED todo
             ELSE /\ todo' = todo \ {t}
                  /\ UNCHANGED <<loaded, upc>>
     \/ /\ todo = {}
        /\ UGoto("done")
        /\ UNCHANGED <<todo, parsed, loaded>>
  /\ UNCHANGED <<resenvs, allTemplates, offered, forcAllowed, isLocked, serving,
                 archive, updates, tries, loop, environ>>

(* Unlock without the finally: an update that failed keeps the lock.       *)
UnlockIfDone ==
  /\ upc \in {"done", "failed"}
  /\ isLocked' = (upc = "failed")
  /\ serving' = TRUE
  /\ todo' = {}
  /\ parsed' = {}
  /\ UGoto("idle")
  /\ UNCHANGED <<resenvs, tables, archive, updates, tries, loop, environ>>

-----------------------------------------------------------------------------
(* ForcConnector.update_templates                                          *)

StartJob ==
  /\ upc = "idle"
  /\ updates < MaxUpdates
  /\ UGoto("check")
  /\ tries' = 0
  /\ UNCHANGED <<resenvs, tables, isLocked, serving, work, loop, environ>>

(* The loop over the dictionary begins.                                    *)
BeginCheck ==
  /\ upc = "check"
  /\ UGoto("ask_redis")
  /\ size' = Cardinality(registered)
  /\ left' = Cardinality(registered)
  /\ UNCHANGED <<resenvs, tables, isLocked, serving, work, tries, seen, id,
                 changed, environ>>

(* tries counts the looks that found a playbook active.  After one of them *)
(* the job sleeps 15 minutes; tries = MaxRetries marks the last look, made *)
(* when the loop is over, be it exhausted or left by break.                *)
FoundActive ==
  /\ LeaveLoop
  /\ \/ /\ tries < MaxRetries
        /\ tries' = tries + 1
        /\ UGoto("check")
     \/ /\ tries = MaxRetries
        /\ UGoto("idle")
        /\ UNCHANGED tries

FoundNone ==
  /\ LeaveLoop
  /\ tries' = MaxRetries
  /\ UGoto(IF tries < MaxRetries THEN "check" ELSE "lock")

(* An exception leaves the job, and the scheduler drops it until the next  *)
(* interval.                                                               *)
JobRaises == LeaveLoop /\ UGoto("idle") /\ UNCHANGED tries

(* The key the iterator may give next.  When a key went and another came,  *)
(* the table may have been rebuilt: it may give one twice, or miss one.    *)
Gives(v) == v \in registered /\ (v \notin seen \/ changed)

(* The iterator raises RuntimeError when the dictionary has another size   *)
(* or more keys than expected, and the question to Redis may raise.        *)
NextKey ==
  /\ upc = "ask_redis"
  /\ \/ /\ Cardinality(registered) # size \/ \E v \in VMs : Gives(v)
        /\ JobRaises
     \/ /\ Cardinality(registered) = size
        /\ registered \subseteq seen \/ changed
        /\ FoundNone
     \/ /\ Cardinality(registered) = size
        /\ left > 0
        /\ \E v \in VMs :
             /\ Gives(v)
             /\ seen' = seen \cup {v}
             /\ IF v \in recorded THEN id' = v /\ UGoto("look_up")
                                  ELSE UNCHANGED <<id, upc>>
        /\ left' = left - 1
        /\ UNCHANGED <<size, tries, changed>>
  /\ UNCHANGED <<resenvs, tables, isLocked, serving, work, environ>>

LookUp ==
  /\ upc = "look_up"
  /\ \/ id \in registered /\ FoundActive
     \/ /\ id \notin registered
        /\ UGoto("ask_redis")
        /\ id' = NoVM
        /\ UNCHANGED <<tries, size, left, seen, changed>>
  /\ UNCHANGED <<resenvs, tables, isLocked, serving, work, environ>>

-----------------------------------------------------------------------------
(* Template.update_playbooks                                               *)

Lock ==
  /\ upc = "lock"
  /\ isLocked' = TRUE
  /\ updates' = updates + 1
  /\ UGoto("download")
  /\ UNCHANGED <<resenvs, tables, serving, archive, todo, parsed, tries,
                 loop, environ>>

(* requests.get, mkdtemp and extractall, of whatever GitHub serves by now. *)
(* The request or the unpacking may raise.                                 *)
Download ==
  /\ upc = "download"
  /\ \/ /\ archive' \in Contents
        /\ todo' = Present(resenvs)
        /\ UGoto("remove")
     \/ /\ UGoto("failed")
        /\ UNCHANGED <<archive, todo>>
  /\ UNCHANGED <<resenvs, tables, isLocked, serving, parsed, updates,
                 tries, loop, environ>>

(* rmtree of plays/resenvs, one template directory after the other; it may *)
(* raise at any of them, or because there is no plays/resenvs.             *)
Remove ==
  /\ upc = "remove"
  /\ \/ /\ \E t \in todo :
             /\ resenvs' = [resenvs EXCEPT ![t] = "absent"]
             /\ todo' = todo \ {t}
        /\ UNCHANGED upc
     \/ /\ todo = {}
        /\ UGoto("move")
        /\ UNCHANGED <<resenvs, todo>>
     \/ /\ UGoto("failed")
        /\ UNCHANGED <<resenvs, todo>>
  /\ UNCHANGED <<tables, isLocked, serving, archive, parsed,
                 updates, tries, loop, environ>>

(* Everything extracted moves below plays/resenvs, where next(filter(...)) *)
(* looks for the one directory of the archive.  The move may raise, and    *)
(* next does when the archive holds no directory.                          *)
Move ==
  /\ upc = "move"
  /\ \/ /\ todo' = Present(archive)
        /\ UGoto("copy")
     \/ /\ UGoto("failed")
        /\ UNCHANGED todo
  /\ UNCHANGED <<resenvs, tables, isLocked, serving, archive, parsed,
                 updates, tries, loop, environ>>

(* copytree of that directory into plays/resenvs, then rmtree of it.  The  *)
(* copy may raise, with some of the templates copied.                      *)
Copy ==
  /\ upc = "copy"
  /\ \/ /\ \E t \in todo :
             /\ resenvs' = [resenvs EXCEPT ![t] = archive[t]]
             /\ todo' = todo \ {t}
        /\ UNCHANGED upc
     \/ /\ todo = {}
        /\ UGoto("list")
        /\ UNCHANGED <<resenvs, todo>>
     \/ /\ UGoto("failed")
        /\ UNCHANGED <<resenvs, todo>>
  /\ UNCHANGED <<tables, isLocked, serving, archive, parsed,
                 updates, tries, loop, environ>>

(* _update_loaded_templates, whose listdir may raise, and ansible-galaxy,  *)
(* which changes nothing here, but may raise where it cannot be started.   *)
List ==
  /\ upc = "list"
  /\ \/ /\ allTemplates' = Present(resenvs)
        /\ todo' = Present(resenvs)
        /\ parsed' = {}
        /\ UGoto("load")
     \/ /\ allTemplates' \in {allTemplates, Present(resenvs)}
        /\ UGoto("failed")
        /\ UNCHANGED <<todo, parsed>>
  /\ UNCHANGED <<resenvs, offered, loaded, forcAllowed, isLocked, serving,
                 archive, updates, tries, loop, environ>>

(* _load_resenv_metadata: metadata that cannot be read or parsed is        *)
(* skipped; a template that needs FORC is appended to the offered ones.    *)
Load ==
  /\ upc = "load"
  /\ \/ /\ \E t \in todo :
             /\ todo' = todo \ {t}
             /\ parsed' = IF resenvs[t] = "broken" THEN parsed
                                                  ELSE parsed \cup {t}
             /\ offered' = IF resenvs[t] \in ForcEditions
                           THEN [offered EXCEPT ![t] = @ + 1]
                           ELSE offered
        /\ UNCHANGED upc
     \/ /\ todo = {}
        /\ todo' = parsed
        /\ UGoto("forc")
        /\ UNCHANGED <<parsed, offered>>
  /\ UNCHANGED <<resenvs, allTemplates, loaded, forcAllowed, isLocked,
                 serving, archive, updates, tries, loop, environ>>

(* _process_template_metadata, first half: FORC is asked for each version. *)
(* A version FORC does not know, or answers too late for, is left out; any *)
(* other error leaves the template as it was.  `todo \ parsed` is the      *)
(* template in hand, if any.                                               *)
AskForc ==
  /\ upc = "forc"
  /\ \/ \E t \in todo :
          /\ parsed' = parsed \ {t}
          /\ \/ /\ resenvs[t] \in ForcEditions
                /\ \E e \in Entries \ {"none"} :
                     forcAllowed' = [forcAllowed EXCEPT ![t] = e]
                /\ UGoto("store")
                /\ UNCHANGED todo
             \/ /\ todo' = todo \ {t}
                /\ UNCHANGED <<forcAllowed, upc>>
     \/ /\ todo = {}
        /\ UGoto("done")
        /\ UNCHANGED <<todo, parsed, forcAllowed>>
  /\ UNCHANGED <<resenvs, allTemplates, offered, loaded, isLocked, serving,
                 archive, updates, tries, loop, environ>>

(* The second half: the metadata becomes visible.                          *)
StoreMetadata ==
  /\ upc = "store"
  /\ \E t \in todo \ parsed :
       /\ loaded' = [loaded EXCEPT ![t] = resenvs[t]]
       /\ todo' = todo \ {t}
  /\ UGoto("forc")
  /\ UNCHANGED <<resenvs, allTemplates, offered, forcAllowed, isLocked,
                 serving, archive, parsed, updates, tries, loop, environ>>

(* finally: whether the update was done or an exception was logged.        *)
Unlock ==
  /\ upc \in {"done", "failed"}
  /\ isLocked' = FALSE
  /\ serving' = TRUE
  /\ todo' = {}
  /\ parsed' = {}
  /\ UGoto("idle")
  /\ UNCHANGED <<resenvs, tables, archive, updates, tries, loop, environ>>

-----------------------------------------------------------------------------
(* Around the update.                                                      *)

(* Requests register and unregister playbooks and create and delete their  *)
(* hashes, once the server runs (see Playbooks).                           *)
Requests ==
  /\ serving
  /\ registered' \in SUBSET VMs
  /\ recorded' \in SUBSET VMs
  /\ changed' = (upc \in LookSteps /\ (changed \/ registered' # registered))
  /\ UNCHANGED <<own, isLocked>>

(* The client dies and starts again; files and Redis stay.                 *)
URestart ==
  /\ updates < MaxUpdates
  /\ allTemplates' = {}
  /\ offered' = [t \in Templates |-> 0]
  /\ loaded' = Empty
  /\ forcAllowed' = [t \in Templates |-> "none"]
  /\ isLocked' = FALSE
  /\ serving' = FALSE
  /\ upc' = "lock"
  /\ archive' = Empty /\ todo' = {} /\ parsed' = {}
  /\ tries' = 0
  /\ LeaveLoop
  /\ registered' = {}
  /\ UNCHANGED <<resenvs, updates, recorded>>

CheckStep  == BeginCheck \/ NextKey \/ LookUp
UpdateStep == \/ Lock \/ Download \/ Remove \/ Move \/ Copy \/ List \/ Load
              \/ AskForc \/ StoreMetadata \/ Unlock
UStep == StartJob \/ CheckStep \/ UpdateStep

UNext == UStep \/ Requests \/ URestart

USpec == UInit /\ [][UNext]_uvars

(* The scheduler's thread is run whenever it can run, and every request it *)
(* makes ends: FORC's have a timeout, for GitHub's this is an assumption,  *)
(* since requests.get without a timeout may wait for ever.                 *)
UFairSpec == USpec /\ WF_uvars(CheckStep) /\ WF_uvars(UpdateStep)

-----------------------------------------------------------------------------
(* Properties.                                                             *)

UTypeOK ==
  /\ resenvs \in Contents
  /\ archive \in Contents
  /\ allTemplates \subseteq Templates
  /\ todo \subseteq Templates
  /\ parsed \subseteq Templates
  /\ offered \in [Templates -> 0 .. MaxUpdates]
  /\ loaded \in [Templates -> ForcEditions \cup {"absent"}]
  /\ forcAllowed \in [Templates -> Entries]
  /\ isLocked \in BOOLEAN
  /\ serving \in BOOLEAN
  /\ upc \in UpdatePCs
  /\ tries \in 0 .. MaxRetries
  /\ size \in 0 .. Cardinality(VMs)
  /\ left \in 0 .. size
  /\ changed \in BOOLEAN
  /\ seen \subseteq VMs
  /\ id \in VMs \cup {NoVM}
  /\ updates \in 0 .. MaxUpdates
  /\ registered \subseteq VMs
  /\ recorded \subseteq VMs

(* A request that finds the metadata of a research environment also finds  *)
(* its entry in _forc_allowed, at every moment of every update.            *)
MetadataHasVersions ==
  \A t \in Templates : loaded[t] # "absent" => forcAllowed[t] # "none"

(* An update that was not abandoned has installed one archive as a whole:  *)
(* the directory and _all_templates agree with it, and each of its usable  *)
(* templates that needs FORC is offered.                                   *)
DoneMeansInstalled ==
  upc = "done" =>
    /\ resenvs = archive
    /\ allTemplates = Present(archive)
    /\ \A t \in Templates : archive[t] \in ForcEditions => offered[t] > 0

(* Requests that see no lock see nothing change: directory and tables are  *)
(* only written under the lock.                                            *)
ChangesUnderLock ==
  [][~isLocked /\ serving' => UNCHANGED <<resenvs, tables>>]_uvars

(* Every job ends, however often playbooks come and go meanwhile, and ends  *)
(* with the lock released, whatever became of its update: the scheduler     *)
(* starts no second job beside it, and with the lock held every deploy      *)
(* would fail from then on.                                                 *)
UpdateJobEnds == upc # "idle" ~> upc = "idle" /\ ~isLocked

(* "Atomically replace the old playbook directory with the new one"        *)
(* (template.py).                                                          *)
AtomicReplacement == [][resenvs' = archive]_resenvs
=============================================================================
