------------------------------ MODULE SftpFlow ------------------------------
(***************************************************************************)
(* From a drop of files to the start of their upload (app/sftp.rs, with    *)
(* SftpService::check_duplicates and the dialogs of sftp/ui.rs).  The      *)
(* dialogs are modal for the tabs below them but not for a further drop,   *)
(* a listing runs on a thread of its own, and the user may close or        *)
(* switch tabs between any two steps.                                      *)
(***************************************************************************)
EXTENDS Naturals, Sequences, FiniteSets, Functions

CONSTANTS Ssh, Plain, \* stable_ids of SSH tabs and of other tabs
          MaxDrops    \* bound on the drops

FlowAssumption == Ssh # {} /\ Ssh \cap Plain = {} /\ MaxDrops \in Nat

Tabs == Ssh \cup Plain
Batches == 1 .. MaxDrops
None == [batch |-> 0, tab |-> "none"]

VARIABLES
    tabs, active,       \* open tabs and the one shown
    dropped,            \* history: the tab shown at each drop
    uploadDialog, overwriteDialog,
    nextRequest, pendingCheck,
    listing,            \* threads: the request of each that has not answered
    results,            \* the result channel
    started,            \* history: uploads started, with their tab
    confirmed,          \* history: batches whose overwrite was confirmed
    found,              \* history: what the listing of each batch said
    settled             \* history: batches pasted, cancelled or refused with a toast

vars == <<tabs, active, dropped, uploadDialog, overwriteDialog, nextRequest, pendingCheck,
          listing, results, started, confirmed, found, settled>>

Init ==
    /\ tabs = Tabs /\ active \in Tabs /\ dropped = <<>>
    /\ uploadDialog = None /\ overwriteDialog = None
    /\ nextRequest = 0 /\ pendingCheck = <<>> /\ listing = {} /\ results = <<>>
    /\ started = {} /\ confirmed = {} /\ found = [b \in Batches |-> "unknown"] /\ settled = {}
-----------------------------------------------------------------------------

\* The files of a drop go to the tab shown: as a dialog, or pasted as paths.
DispatchDrop ==
    /\ Len(dropped) < MaxDrops /\ tabs # {}
    /\ LET b == Len(dropped) + 1 IN
       /\ dropped' = Append(dropped, active)
       /\ \/ active \in Ssh /\ uploadDialog' = [batch |-> b, tab |-> active] /\ UNCHANGED settled
          \/ active \in Plain /\ settled' = settled \cup {b} /\ UNCHANGED uploadDialog
    /\ UNCHANGED <<tabs, active, overwriteDialog, nextRequest, pendingCheck, listing, results,
                   started, confirmed, found>>

TabIsStillSsh(t) == t \in tabs /\ t \in Ssh

\* A plausible slip: the upload is made for the tab that is shown now.
ConfirmUploadActive ==
    /\ uploadDialog # None /\ uploadDialog' = None
    /\ IF TabIsStillSsh(active) THEN
          /\ nextRequest' = nextRequest + 1 /\ listing' = listing \cup {nextRequest'}
          /\ pendingCheck' = [r \in DOMAIN pendingCheck \cup {nextRequest'} |->
                IF r = nextRequest' THEN [uploadDialog EXCEPT !.tab = active] ELSE pendingCheck[r]]
          /\ UNCHANGED settled
       ELSE settled' = settled \cup {uploadDialog.batch}
            /\ UNCHANGED <<nextRequest, listing, pendingCheck>>
    /\ UNCHANGED <<tabs, active, dropped, overwriteDialog, results, started, confirmed, found>>

\* confirm_upload_dialog and check_duplicates
ConfirmUpload ==
    /\ uploadDialog # None /\ uploadDialog' = None
    /\ IF TabIsStillSsh(uploadDialog.tab) THEN
          /\ nextRequest' = nextRequest + 1 /\ listing' = listing \cup {nextRequest'}
          /\ pendingCheck' = [r \in DOMAIN pendingCheck \cup {nextRequest'} |->
                IF r = nextRequest' THEN uploadDialog ELSE pendingCheck[r]]
          /\ UNCHANGED settled
       ELSE settled' = settled \cup {uploadDialog.batch}
            /\ UNCHANGED <<nextRequest, listing, pendingCheck>>
    /\ UNCHANGED <<tabs, active, dropped, overwriteDialog, results, started, confirmed, found>>

CancelUploadDialog ==
    /\ uploadDialog # None /\ uploadDialog' = None /\ settled' = settled \cup {uploadDialog.batch}
    /\ UNCHANGED <<tabs, active, dropped, overwriteDialog, nextRequest, pendingCheck, listing,
                   results, started, confirmed, found>>

\* The thread of a listing: no file of that name is there, some are, or it failed.
ListingEnds(r) ==
    /\ r \in listing /\ listing' = listing \ {r}
    /\ \E out \in {"none", "some", "error"} : results' = Append(results, [id |-> r, outcome |-> out])
    /\ UNCHANGED <<tabs, active, dropped, uploadDialog, overwriteDialog, nextRequest,
                   pendingCheck, started, confirmed, found, settled>>
-----------------------------------------------------------------------------
\* start_uploads_with: the uploads of the batch start if its tab is still there.
StartUploadsWith(d) ==
    IF TabIsStillSsh(d.tab)
    THEN started' = started \cup {<<d.batch, d.tab>>} /\ UNCHANGED settled
    ELSE settled' = settled \cup {d.batch} /\ UNCHANGED started

\* confirm_branch, for a listing that succeeded
ConfirmBranch(out) == out = "none"

\* One result of pump_sftp: its dialog is taken out of the map.
PumpResult ==
    /\ results # <<>> /\ results' = Tail(results)
    /\ LET r == Head(results).id
           out == Head(results).outcome
           d == pendingCheck[r]
       IN IF r \notin DOMAIN pendingCheck
          THEN UNCHANGED <<pendingCheck, found, overwriteDialog, settled, started>>
          ELSE /\ pendingCheck' = Restrict(pendingCheck, DOMAIN pendingCheck \ {r})
               /\ found' = [found EXCEPT ![d.batch] = out]
               /\ CASE ConfirmBranch(out) -> StartUploadsWith(d) /\ UNCHANGED overwriteDialog
                    [] out = "some" /\ ~ConfirmBranch(out) ->
                          overwriteDialog' = d /\ UNCHANGED <<settled, started>>
                    [] OTHER -> settled' = settled \cup {d.batch}
                                /\ UNCHANGED <<overwriteDialog, started>>
    /\ UNCHANGED <<tabs, active, dropped, uploadDialog, nextRequest, listing, confirmed>>

ConfirmOverwrite ==
    /\ overwriteDialog # None /\ overwriteDialog' = None
    /\ confirmed' = confirmed \cup {overwriteDialog.batch} /\ StartUploadsWith(overwriteDialog)
    /\ UNCHANGED <<tabs, active, dropped, uploadDialog, nextRequest, pendingCheck, listing,
                   results, found>>

CancelOverwrite ==
    /\ overwriteDialog # None /\ overwriteDialog' = None
    /\ settled' = settled \cup {overwriteDialog.batch}
    /\ UNCHANGED <<tabs, active, dropped, uploadDialog, nextRequest, pendingCheck, listing,
                   results, started, confirmed, found>>
-----------------------------------------------------------------------------
SwitchTab(t) ==
    /\ t \in tabs /\ t # active /\ active' = t
    /\ UNCHANGED <<tabs, dropped, uploadDialog, overwriteDialog, nextRequest, pendingCheck,
                   listing, results, started, confirmed, found, settled>>

CloseTab(t) ==
    /\ t \in tabs /\ tabs' = tabs \ {t}
    /\ IF t = active /\ tabs' # {} THEN active' \in tabs' ELSE UNCHANGED active
    /\ UNCHANGED <<dropped, uploadDialog, overwriteDialog, nextRequest, pendingCheck, listing,
                   results, started, confirmed, found, settled>>

Next ==
    \/ DispatchDrop \/ ConfirmUpload \/ CancelUploadDialog \/ PumpResult
    \/ ConfirmOverwrite \/ CancelOverwrite
    \/ \E r \in listing : ListingEnds(r)
    \/ \E t \in Tabs : SwitchTab(t) \/ CloseTab(t)

Spec == Init /\ [][Next]_vars

\* A listing ends and frames pump the results; the user answers when they like.
FairSpec == Spec /\ WF_vars(PumpResult) /\ \A r \in Batches : WF_vars(ListingEnds(r))
-----------------------------------------------------------------------------
(* The state is well formed: a dialog is of a drop on an SSH tab. *)
TypeOK ==
    /\ tabs \subseteq Tabs /\ active \in Tabs /\ Len(dropped) <= MaxDrops
    /\ \A d \in {uploadDialog, overwriteDialog} \cup Range(pendingCheck) :
          d = None \/ (d.batch \in DOMAIN dropped /\ d.tab \in Ssh)
    /\ listing \subseteq DOMAIN pendingCheck /\ DOMAIN pendingCheck \subseteq 1 .. nextRequest

(* Identity captured at the drop: whatever tab is shown by the time the dialogs and    *)
(* the listing are through, files go to the tab they were dropped on, and to no other. *)
UploadsGoWhereDropped == \A u \in started : dropped[u[1]] = u[2] /\ u[2] \in Ssh

(* A destination that was not listed never receives an implicit overwrite: uploads     *)
(* start only after a listing that found nothing, or after the question was answered.  *)
NoUnverifiedUpload ==
    \A u \in started : found[u[1]] = "none" \/ (found[u[1]] = "some" /\ u[1] \in confirmed)

(* Batches do not come back: what was started, pasted, cancelled or refused waits in   *)
(* no dialog and no check, so it cannot be started again.                              *)
SettledOnce ==
    LET open == {uploadDialog.batch, overwriteDialog.batch} \cup {d.batch : d \in Range(pendingCheck)}
        over == settled \cup {u[1] : u \in started}
    IN open \cap over = {} /\ settled \cap {u[1] : u \in started} = {}

(* pending_check: "A map (not a single slot) so concurrent duplicate checks are not    *)
(* dropped": the outcome of each checked batch reaches the user or the uploads.        *)
ChecksNotDropped ==
    \A b \in Batches : found[b] # "unknown" =>
       \/ b \in settled \/ b \in {u[1] : u \in started} \/ overwriteDialog.batch = b
=============================================================================
