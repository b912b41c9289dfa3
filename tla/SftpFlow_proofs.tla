-------------------------- MODULE SftpFlow_proofs --------------------------
(***************************************************************************)
(* For any number of drops and tabs, closed and switched at any moment:    *)
(* files go to the tab they were dropped on, after a listing that found    *)
(* nothing or an answered question, and a batch that is settled waits      *)
(* nowhere.                                                                *)
(***************************************************************************)
EXTENDS SftpFlow, TLAPS

Outcome == {"none", "some", "error"}

\* d is the dialog of a drop on an SSH tab.
IsDrop(d) ==
    /\ d \in [batch : Batches, tab : Ssh]
    /\ d.batch <= Len(dropped) /\ dropped[d.batch] = d.tab

\* The batch is over: its upload has started, or nothing of it will.
Over == settled \cup {u[1] : u \in started}

\* Where a batch can wait, and what is known of it, has its type.
Places ==
    /\ tabs \subseteq Tabs /\ active \in Tabs
    /\ dropped \in Seq(Tabs) /\ Len(dropped) <= MaxDrops
    /\ uploadDialog = None \/ IsDrop(uploadDialog)
    /\ overwriteDialog = None \/ IsDrop(overwriteDialog)
    /\ \A r \in DOMAIN pendingCheck : IsDrop(pendingCheck[r])
    /\ settled \subseteq 1 .. Len(dropped)
    /\ \A u \in started : u = <<u[1], u[2]>> /\ IsDrop([batch |-> u[1], tab |-> u[2]])
    /\ found \in [Batches -> Outcome \cup {"unknown"}]

\* A request is listed or answered, never both.
Requests ==
    /\ nextRequest \in Nat
    /\ DOMAIN pendingCheck \subseteq 1 .. nextRequest
    /\ listing \subseteq DOMAIN pendingCheck
    /\ results \in Seq([id : Nat, outcome : Outcome])
    /\ \A i \in 1 .. Len(results) : /\ results[i].id <= nextRequest
                                    /\ results[i].id \notin listing

\* A batch waits in one place, and not once it is over.
OnePlace ==
    /\ uploadDialog # None =>
          /\ uploadDialog.batch \notin Over
          /\ uploadDialog.batch # overwriteDialog.batch
          /\ \A r \in DOMAIN pendingCheck : pendingCheck[r].batch # uploadDialog.batch
    /\ overwriteDialog # None =>
          /\ overwriteDialog.batch \notin Over
          /\ \A r \in DOMAIN pendingCheck : pendingCheck[r].batch # overwriteDialog.batch
    /\ \A r \in DOMAIN pendingCheck : pendingCheck[r].batch \notin Over
    /\ \A r, s \in DOMAIN pendingCheck : r # s => pendingCheck[r].batch # pendingCheck[s].batch
    /\ \A u \in started : u[1] \notin settled

\* The question is asked only where files were found.
Asked == overwriteDialog # None => found[overwriteDialog.batch] = "some"

FlowInv == Places /\ Requests /\ OnePlace /\ Asked /\ NoUnverifiedUpload

-----------------------------------------------------------------------------

\* What a sequence holds, and what is left of it when its head is taken.
LEMMA Elements ==
    ASSUME NEW S, NEW s \in Seq(S)
    PROVE  Len(s) \in Nat /\ \A i \in 1 .. Len(s) : s[i] \in S
    OBVIOUS

LEMMA HeadTaken ==
    ASSUME NEW S, NEW s \in Seq(S), s # <<>>
    PROVE  /\ Head(s) = s[1] /\ 1 \in 1 .. Len(s)
           /\ Tail(s) \in Seq(S) /\ Len(Tail(s)) = Len(s) - 1
           /\ \A i \in 1 .. Len(s) - 1 : Tail(s)[i] = s[i + 1]
    OBVIOUS

\* Initially nothing was dropped.
LEMMA InitFlow == ASSUME FlowAssumption PROVE Init => FlowInv
    <1> SUFFICES ASSUME Init PROVE FlowInv
        OBVIOUS
    <1>1. /\ dropped = <<>> /\ Len(dropped) = 0 /\ dropped \in Seq(Tabs)
          /\ results = <<>> /\ Len(results) = 0
          /\ results \in Seq([id : Nat, outcome : Outcome])
        BY DEF Init
    <1>2. DOMAIN pendingCheck = {}
        BY DEF Init
    <1>3. Places
        BY <1>1, <1>2 DEF Init, Places, FlowAssumption
    <1>4. Requests
        BY <1>1, <1>2 DEF Init, Requests
    <1> QED BY <1>2, <1>3, <1>4 DEF Init, FlowInv, OnePlace, Asked, NoUnverifiedUpload

\* Steps that touch the tabs only.
LEMMA TabSteps ==
    ASSUME FlowInv, UNCHANGED <<dropped, uploadDialog, overwriteDialog, nextRequest,
                                pendingCheck, listing, results, started, confirmed, found,
                                settled>>,
           tabs' \subseteq Tabs, active' \in Tabs
    PROVE  FlowInv'
    <1>1. Places'
        BY DEF FlowInv, Places, IsDrop
    <1>2. Requests' /\ OnePlace' /\ Asked' /\ NoUnverifiedUpload'
        BY DEF FlowInv, Requests, OnePlace, Over, Asked, NoUnverifiedUpload
    <1> QED BY <1>1, <1>2 DEF FlowInv

\* A drop is a batch that was in no place before.
LEMMA DropStep ==
    ASSUME FlowAssumption, FlowInv, DispatchDrop
    PROVE  FlowInv'
    <1>1. PICK b : b = Len(dropped) + 1 /\ b \in Nat /\ b \in Batches
        BY DEF DispatchDrop, Batches, FlowInv, Places, FlowAssumption
    <1>2. /\ dropped \in Seq(Tabs) /\ active \in Tabs /\ dropped' = Append(dropped, active)
          /\ UNCHANGED <<tabs, active, overwriteDialog, nextRequest, pendingCheck, listing,
                         results, started, confirmed, found>>
          /\ \/ /\ active \in Ssh /\ uploadDialog' = [batch |-> b, tab |-> active]
                /\ UNCHANGED settled
             \/ settled' = settled \cup {b} /\ UNCHANGED uploadDialog
        BY <1>1 DEF DispatchDrop, FlowInv, Places
    <1>3. /\ dropped' \in Seq(Tabs) /\ Len(dropped') = b /\ Len(dropped) = b - 1
          /\ dropped'[b] = active
          /\ \A i \in 1 .. b - 1 : dropped'[i] = dropped[i]
        BY <1>1, <1>2
    <1>4. \A d : IsDrop(d) => IsDrop(d)' /\ d.batch < b
        BY <1>1, <1>3 DEF IsDrop, Batches
    <1>5. active \in Ssh => IsDrop([batch |-> b, tab |-> active])'
        BY <1>1, <1>2, <1>3 DEF IsDrop
    <1>6. Places'
        <2>1. Len(dropped') <= MaxDrops
            BY <1>1, <1>3 DEF Batches, FlowAssumption
        <2>2. settled' \subseteq 1 .. Len(dropped')
            BY <1>1, <1>2, <1>3 DEF FlowInv, Places
        <2>3. uploadDialog' = None \/ IsDrop(uploadDialog)'
            BY <1>2, <1>4, <1>5 DEF FlowInv, Places, IsDrop
        <2>4. /\ overwriteDialog' = None \/ IsDrop(overwriteDialog)'
              /\ \A r \in DOMAIN pendingCheck' : IsDrop(pendingCheck[r])'
            BY <1>2, <1>4 DEF FlowInv, Places, IsDrop
        <2>5. \A u \in started' : u = <<u[1], u[2]>> /\ IsDrop([batch |-> u[1], tab |-> u[2]])'
            BY <1>2, <1>4 DEF FlowInv, Places, IsDrop
        <2>6. /\ tabs' \subseteq Tabs /\ active' \in Tabs
              /\ found' \in [Batches -> Outcome \cup {"unknown"}]
            BY <1>2 DEF FlowInv, Places
        <2> QED BY <1>3, <2>1, <2>2, <2>3, <2>4, <2>5, <2>6 DEF Places
    <1>7. Requests' /\ Asked' /\ NoUnverifiedUpload'
        BY <1>2 DEF FlowInv, Requests, Asked, NoUnverifiedUpload
    <1>8. OnePlace'
        <2>1. /\ \A x \in Over : x < b
              /\ \A u \in started : u[1] < b
            <3>1. \A u \in started : u[1] < b
                <4>1. SUFFICES ASSUME NEW u \in started PROVE u[1] < b
                    OBVIOUS
                <4>2. IsDrop([batch |-> u[1], tab |-> u[2]])
                    BY DEF FlowInv, Places
                <4>3. [batch |-> u[1], tab |-> u[2]].batch < b
                    BY <1>4, <4>2
                <4> QED BY <4>3
            <3>2. \A x \in settled : x < b
                BY <1>1, <1>3 DEF FlowInv, Places
            <3> QED BY <3>1, <3>2 DEF Over
        <2>2. /\ \A r \in DOMAIN pendingCheck : pendingCheck[r].batch < b
              /\ overwriteDialog.batch < b /\ uploadDialog.batch < b
            BY <1>1, <1>4 DEF FlowInv, Places, None
        <2>3. Over' = Over \/ Over' = Over \cup {b}
            BY <1>2 DEF Over
        <2>4. CASE uploadDialog' = [batch |-> b, tab |-> active] /\ UNCHANGED settled
            <3>1. Over' = Over
                BY <1>2, <2>4 DEF Over
            <3> QED BY <1>1, <1>2, <2>1, <2>2, <2>4, <3>1 DEF FlowInv, OnePlace
        <2>5. CASE settled' = settled \cup {b} /\ UNCHANGED uploadDialog
            <3>1. Over' = Over \cup {b}
                BY <1>2, <2>5 DEF Over
            <3> QED BY <1>1, <1>2, <2>1, <2>2, <2>5, <3>1 DEF FlowInv, OnePlace
        <2> QED BY <1>2, <2>4, <2>5
    <1> QED BY <1>6, <1>7, <1>8 DEF FlowInv

\* What is known of a dialog that waits.
LEMMA Waiting ==
    ASSUME NEW d, IsDrop(d)
    PROVE  d # None /\ d.batch \in 1 .. Len(dropped) /\ d.batch \in Batches /\ d.batch # 0
    <1>1. d.batch \in Batches /\ d.batch # 0 /\ d.batch <= Len(dropped)
        BY DEF IsDrop, Batches
    <1>2. d # None
        BY <1>1 DEF None
    <1> QED BY <1>1, <1>2 DEF Batches, IsDrop

\* The dialog of an upload ends with nothing to do.
LEMMA UploadRefused ==
    ASSUME FlowInv, uploadDialog # None, uploadDialog' = None,
           settled' = settled \cup {uploadDialog.batch},
           UNCHANGED <<tabs, active, dropped, overwriteDialog, nextRequest, pendingCheck,
                       listing, results, started, confirmed, found>>
    PROVE  FlowInv'
    <1>1. IsDrop(uploadDialog)
        BY DEF FlowInv, Places
    <1>2. uploadDialog.batch \in 1 .. Len(dropped)
        BY <1>1, Waiting
    <1>3. Places'
        BY <1>2 DEF FlowInv, Places, IsDrop
    <1>4. Requests' /\ Asked' /\ NoUnverifiedUpload'
        BY DEF FlowInv, Requests, Asked, NoUnverifiedUpload
    <1>5. Over' = Over \cup {uploadDialog.batch}
        BY DEF Over
    <1>6. uploadDialog.batch \notin {u[1] : u \in started}
        BY DEF FlowInv, OnePlace, Over
    <1>7. OnePlace'
        BY <1>5, <1>6 DEF FlowInv, OnePlace
    <1> QED BY <1>3, <1>4, <1>7 DEF FlowInv

\* A confirmed upload waits for its listing, under a request of its own.
LEMMA ConfirmUploadStep ==
    ASSUME FlowInv, ConfirmUpload
    PROVE  FlowInv'
    <1>1. CASE ~TabIsStillSsh(uploadDialog.tab)
        BY <1>1, UploadRefused DEF ConfirmUpload
    <1>2. CASE TabIsStillSsh(uploadDialog.tab)
        <2> DEFINE n == nextRequest + 1
        <2>1. /\ uploadDialog # None /\ uploadDialog' = None
              /\ nextRequest' = n /\ listing' = listing \cup {n}
              /\ pendingCheck' = [r \in DOMAIN pendingCheck \cup {n} |->
                                    IF r = n THEN uploadDialog ELSE pendingCheck[r]]
              /\ UNCHANGED <<tabs, active, dropped, overwriteDialog, results, started,
                             confirmed, found, settled>>
            BY <1>2 DEF ConfirmUpload
        <2>2. /\ nextRequest \in Nat /\ n \in Nat /\ n > nextRequest
              /\ n \notin DOMAIN pendingCheck
              /\ \A i \in 1 .. nextRequest : i \in 1 .. n
            BY DEF FlowInv, Requests
        <2> HIDE DEF n
        <2>3. /\ DOMAIN pendingCheck' = DOMAIN pendingCheck \cup {n}
              /\ pendingCheck'[n] = uploadDialog
              /\ \A r \in DOMAIN pendingCheck : r # n /\ pendingCheck'[r] = pendingCheck[r]
            BY <2>1, <2>2
        <2>4. IsDrop(uploadDialog)
            BY <2>1 DEF FlowInv, Places
        <2>5. Places'
            BY <2>1, <2>3, <2>4 DEF FlowInv, Places, IsDrop
        <2>6. Requests'
            <3>1. DOMAIN pendingCheck' \subseteq 1 .. nextRequest'
                <4>1. n \in 1 .. n
                    BY <2>2
                <4>2. DOMAIN pendingCheck \subseteq 1 .. n
                    BY <2>2 DEF FlowInv, Requests
                <4>3. nextRequest' = n /\ DOMAIN pendingCheck' = DOMAIN pendingCheck \cup {n}
                    BY <2>1, <2>3
                <4> QED BY <2>2, <4>1, <4>2, <4>3
            <3>2. \A i \in 1 .. Len(results) : results[i].id \in Nat
                <4>1. results \in Seq([id : Nat, outcome : Outcome])
                    BY DEF FlowInv, Requests
                <4>2. \A i \in 1 .. Len(results) : results[i] \in [id : Nat, outcome : Outcome]
                    BY <4>1, Elements
                <4> QED BY <4>2
            <3>3. \A i \in 1 .. Len(results') : /\ results'[i].id <= nextRequest'
                                               /\ results'[i].id \notin listing'
                BY <2>1, <2>2, <3>2 DEF FlowInv, Requests
            <3> QED BY <2>1, <2>2, <2>3, <3>1, <3>3 DEF FlowInv, Requests
        <2>7. Asked' /\ NoUnverifiedUpload'
            BY <2>1 DEF FlowInv, Asked, NoUnverifiedUpload
        <2>8. Over' = Over
            BY <2>1 DEF Over
        <2>9. OnePlace'
            BY <2>1, <2>3, <2>8 DEF FlowInv, OnePlace
        <2> QED BY <2>5, <2>6, <2>7, <2>9 DEF FlowInv
    <1> QED BY <1>1, <1>2

\* The answer of a listing joins the channel.
LEMMA ListingStep ==
    ASSUME FlowInv, NEW r \in listing, ListingEnds(r)
    PROVE  FlowInv'
    <1>1. PICK out \in Outcome : /\ results' = Append(results, [id |-> r, outcome |-> out])
                                /\ listing' = listing \ {r}
        BY DEF ListingEnds, Outcome
    <1>2. UNCHANGED <<tabs, active, dropped, uploadDialog, overwriteDialog, nextRequest,
                      pendingCheck, started, confirmed, found, settled>>
        BY DEF ListingEnds
    <1>3. r \in 1 .. nextRequest /\ nextRequest \in Nat
        BY DEF FlowInv, Requests
    <1>4. Requests'
        <2>1. results \in Seq([id : Nat, outcome : Outcome])
            BY DEF FlowInv, Requests
        <2>2. [id |-> r, outcome |-> out] \in [id : Nat, outcome : Outcome]
            BY <1>3
        <2>3. /\ results' \in Seq([id : Nat, outcome : Outcome])
              /\ Len(results') = Len(results) + 1
              /\ \A i \in 1 .. Len(results) : results'[i] = results[i]
              /\ results'[Len(results) + 1] = [id |-> r, outcome |-> out]
            BY <1>1, <2>1, <2>2
        <2>4. ASSUME NEW i \in 1 .. Len(results')
              PROVE  results'[i].id <= nextRequest' /\ results'[i].id \notin listing'
            <3>1. CASE i \in 1 .. Len(results)
                BY <1>1, <1>2, <2>3, <3>1 DEF FlowInv, Requests
            <3>2. CASE i = Len(results) + 1
                BY <1>1, <1>2, <1>3, <2>3, <3>2
            <3> QED BY <2>1, <2>3, <3>1, <3>2
        <2> QED BY <1>1, <1>2, <2>3, <2>4 DEF FlowInv, Requests
    <1>5. Places' /\ OnePlace' /\ Asked' /\ NoUnverifiedUpload'
        BY <1>2 DEF FlowInv, Places, IsDrop, OnePlace, Over, Asked, NoUnverifiedUpload
    <1> QED BY <1>4, <1>5 DEF FlowInv

\* The question about existing files is answered: the batch starts, or is over.
LEMMA AnswerStep ==
    ASSUME FlowInv, overwriteDialog # None, overwriteDialog' = None,
           \/ /\ confirmed' = confirmed \cup {overwriteDialog.batch}
              /\ started' = started \cup {<<overwriteDialog.batch, overwriteDialog.tab>>}
              /\ UNCHANGED settled
           \/ /\ settled' = settled \cup {overwriteDialog.batch} /\ UNCHANGED started
              /\ confirmed \subseteq confirmed',
           UNCHANGED <<tabs, active, dropped, uploadDialog, nextRequest, pendingCheck,
                       listing, results, found>>
    PROVE  FlowInv'
    <1> DEFINE d == overwriteDialog
    <1>1. IsDrop(d) /\ found[d.batch] = "some"
        BY DEF FlowInv, Places, Asked
    <1>2. d.batch \in 1 .. Len(dropped)
        BY <1>1, Waiting
    <1>3. [batch |-> d.batch, tab |-> d.tab] = d
        BY <1>1 DEF IsDrop
    <1>4. Requests' /\ Asked'
        BY DEF FlowInv, Requests, Asked
    <1>5. /\ d.batch \notin settled
          /\ \A u \in started : u[1] # d.batch
        BY DEF FlowInv, OnePlace, Over
    <1>6. Over' = Over \cup {d.batch}
        <2>1. <<d.batch, d.tab>>[1] = d.batch
            OBVIOUS
        <2>2. CASE started' = started \cup {<<d.batch, d.tab>>} /\ UNCHANGED settled
            <3>1. {u[1] : u \in started'} = {u[1] : u \in started} \cup {d.batch}
                BY <2>1, <2>2
            <3> QED BY <2>2, <3>1 DEF Over
        <2>3. CASE settled' = settled \cup {d.batch} /\ UNCHANGED started
            BY <2>3 DEF Over
        <2> QED BY <2>2, <2>3
    <1>7. /\ uploadDialog # None => uploadDialog.batch # d.batch
          /\ \A r \in DOMAIN pendingCheck : pendingCheck[r].batch # d.batch
        BY DEF FlowInv, OnePlace
    <1>8. uploadDialog # None => uploadDialog.batch # 0
        BY Waiting DEF FlowInv, Places
    <1>9. CASE started' = started \cup {<<d.batch, d.tab>>} /\ UNCHANGED settled
               /\ confirmed' = confirmed \cup {d.batch}
        <2>1. Places'
            BY <1>1, <1>3, <1>9 DEF FlowInv, Places, IsDrop
        <2>2. NoUnverifiedUpload'
            BY <1>1, <1>9 DEF FlowInv, NoUnverifiedUpload
        <2>3. OnePlace'
            BY <1>5, <1>6, <1>7, <1>8, <1>9 DEF FlowInv, OnePlace, None
        <2> QED BY <1>4, <2>1, <2>2, <2>3 DEF FlowInv
    <1>10. CASE settled' = settled \cup {d.batch} /\ UNCHANGED started
                /\ confirmed \subseteq confirmed'
        <2>1. Places'
            BY <1>2, <1>10 DEF FlowInv, Places, IsDrop
        <2>2. NoUnverifiedUpload'
            BY <1>10 DEF FlowInv, NoUnverifiedUpload
        <2>3. OnePlace'
            BY <1>5, <1>6, <1>7, <1>8, <1>10 DEF FlowInv, OnePlace, None
        <2> QED BY <1>4, <2>1, <2>2, <2>3 DEF FlowInv
    <1> QED BY <1>9, <1>10

\* A result taken from the channel: its dialog starts, asks or is over.
LEMMA PumpStep ==
    ASSUME FlowInv, PumpResult
    PROVE  FlowInv'
    <1> DEFINE r == Head(results).id
               out == Head(results).outcome
               d == pendingCheck[r]
               Answers == [id : Nat, outcome : Outcome]
    <1>1. /\ results \in Seq(Answers) /\ results # <<>> /\ results' = Tail(results)
          /\ UNCHANGED <<tabs, active, dropped, uploadDialog, nextRequest, listing, confirmed>>
        BY DEF PumpResult, FlowInv, Requests
    <1>2. /\ Head(results) = results[1] /\ results[1] \in Answers /\ 1 \in 1 .. Len(results)
          /\ Tail(results) \in Seq(Answers) /\ Len(Tail(results)) = Len(results) - 1
          /\ \A i \in 1 .. Len(results) - 1 : Tail(results)[i] = results[i + 1]
        <2> HIDE DEF Answers
        <2> QED BY <1>1, Elements, HeadTaken
    <1>3. out \in Outcome /\ r \notin listing
        BY <1>2 DEF FlowInv, Requests
    <1>4. \A i \in 1 .. Len(results') : /\ results'[i].id <= nextRequest
                                       /\ results'[i].id \notin listing
        <2>1. \A i \in 1 .. Len(results) - 1 : i + 1 \in 1 .. Len(results)
            BY <1>1
        <2>2. \A i \in 1 .. Len(results) : /\ results[i].id <= nextRequest
                                          /\ results[i].id \notin listing
            BY DEF FlowInv, Requests
        <2> QED BY <1>1, <1>2, <2>1, <2>2
    <1>5. CASE r \notin DOMAIN pendingCheck
        <2>1. UNCHANGED <<pendingCheck, found, overwriteDialog, settled, started>>
            BY <1>5 DEF PumpResult
        <2>2. Requests'
            BY <1>1, <1>2, <1>4, <2>1 DEF FlowInv, Requests
        <2>3. Places' /\ OnePlace' /\ Asked' /\ NoUnverifiedUpload'
            BY <1>1, <2>1 DEF FlowInv, Places, IsDrop, OnePlace, Over, Asked,
                              NoUnverifiedUpload
        <2> QED BY <2>2, <2>3 DEF FlowInv
    <1>6. CASE r \in DOMAIN pendingCheck
        <2>1. /\ pendingCheck' = [s \in DOMAIN pendingCheck \ {r} |-> pendingCheck[s]]
              /\ found' = [found EXCEPT ![d.batch] = out]
            BY <1>6 DEF PumpResult, Restrict
        <2>2. \/ /\ out = "none" /\ started' = started \cup {<<d.batch, d.tab>>}
                 /\ UNCHANGED <<settled, overwriteDialog>>
              \/ /\ out = "some" /\ overwriteDialog' = d /\ UNCHANGED <<settled, started>>
              \/ /\ settled' = settled \cup {d.batch} /\ UNCHANGED <<overwriteDialog, started>>
            BY <1>6 DEF PumpResult, StartUploadsWith, ConfirmBranch
        <2> HIDE DEF r, out
        <2>3. IsDrop(d) /\ d # None /\ d.batch \in 1 .. Len(dropped) /\ d.batch \in Batches
            BY <1>6, Waiting DEF FlowInv, Places
        <2>4. /\ d.batch \notin Over /\ d.batch \notin settled
              /\ \A u \in started : u[1] # d.batch
              /\ uploadDialog # None => uploadDialog.batch # d.batch
              /\ overwriteDialog # None => overwriteDialog.batch # d.batch
              /\ \A s \in DOMAIN pendingCheck : s # r => pendingCheck[s].batch # d.batch
            BY <1>6 DEF FlowInv, OnePlace, Over
        <2>5. /\ DOMAIN pendingCheck' = DOMAIN pendingCheck \ {r}
              /\ \A s \in DOMAIN pendingCheck' : s # r /\ pendingCheck'[s] = pendingCheck[s]
            BY <2>1
        <2>6. /\ found' \in [Batches -> Outcome \cup {"unknown"}] /\ found'[d.batch] = out
              /\ \A b \in Batches : b # d.batch => found'[b] = found[b]
            BY <1>3, <2>1, <2>3 DEF FlowInv, Places
        <2> HIDE DEF d
        <2>7. Requests'
            BY <1>1, <1>2, <1>3, <1>4, <2>5 DEF FlowInv, Requests
        <2>8. /\ \A u \in started : u[1] \in Batches /\ found'[u[1]] = found[u[1]]
              /\ overwriteDialog # None =>
                    /\ overwriteDialog.batch \in Batches
                    /\ found'[overwriteDialog.batch] = found[overwriteDialog.batch]
            <3>1. ASSUME NEW u \in started PROVE u[1] \in Batches
                <4>1. IsDrop([batch |-> u[1], tab |-> u[2]])
                    BY DEF FlowInv, Places
                <4>2. [batch |-> u[1], tab |-> u[2]].batch \in Batches
                    BY <4>1, Waiting
                <4> QED BY <4>2
            <3>2. overwriteDialog # None => overwriteDialog.batch \in Batches
                BY Waiting DEF FlowInv, Places
            <3> QED BY <2>4, <2>6, <3>1, <3>2
        <2>9. /\ uploadDialog # None => uploadDialog.batch # 0
              /\ overwriteDialog # None => overwriteDialog.batch # 0
            BY Waiting DEF FlowInv, Places
        <2>10. /\ \A x : IsDrop(x) => IsDrop(x)'
               /\ \A s \in DOMAIN pendingCheck' : IsDrop(pendingCheck[s])
            BY <1>1, <2>5 DEF IsDrop, FlowInv, Places
        <2>11. CASE out = "none" /\ started' = started \cup {<<d.batch, d.tab>>}
                    /\ UNCHANGED <<settled, overwriteDialog>>
            <3>1. [batch |-> d.batch, tab |-> d.tab] = d /\ <<d.batch, d.tab>>[1] = d.batch
                BY <2>3 DEF IsDrop
            <3>2. Over' = Over \cup {d.batch}
                <4>1. {u[1] : u \in started'} = {u[1] : u \in started} \cup {d.batch}
                    BY <2>11, <3>1
                <4> QED BY <2>11, <4>1 DEF Over
            <3>3. Places'
                BY <1>1, <2>3, <2>5, <2>6, <2>11, <3>1 DEF FlowInv, Places, IsDrop
            <3>4. OnePlace'
                BY <1>1, <2>4, <2>5, <2>9, <2>11, <3>1, <3>2 DEF FlowInv, OnePlace, None
            <3>5. Asked' /\ NoUnverifiedUpload'
                BY <1>1, <2>6, <2>8, <2>11, <3>1 DEF FlowInv, Asked, NoUnverifiedUpload
            <3> QED BY <2>7, <3>3, <3>4, <3>5 DEF FlowInv
        <2>12. CASE out = "some" /\ overwriteDialog' = d /\ UNCHANGED <<settled, started>>
            <3>1. Over' = Over
                BY <2>12 DEF Over
            <3>2. Places'
                BY <1>1, <2>3, <2>5, <2>6, <2>12 DEF FlowInv, Places, IsDrop
            <3>3. OnePlace'
                BY <1>1, <2>4, <2>5, <2>12, <3>1 DEF FlowInv, OnePlace
            <3>4. Asked' /\ NoUnverifiedUpload'
                BY <1>1, <2>6, <2>8, <2>12 DEF FlowInv, Asked, NoUnverifiedUpload
            <3> QED BY <2>7, <3>2, <3>3, <3>4 DEF FlowInv
        <2>13. CASE settled' = settled \cup {d.batch} /\ UNCHANGED <<overwriteDialog, started>>
            <3>1. Over' = Over \cup {d.batch}
                BY <2>13 DEF Over
            <3>2. Places'
                BY <1>1, <2>3, <2>5, <2>6, <2>13 DEF FlowInv, Places, IsDrop
            <3>3. OnePlace'
                BY <1>1, <2>4, <2>5, <2>9, <2>13, <3>1 DEF FlowInv, OnePlace, None
            <3>4. Asked' /\ NoUnverifiedUpload'
                BY <1>1, <2>6, <2>8, <2>13 DEF FlowInv, Asked, NoUnverifiedUpload
            <3> QED BY <2>7, <3>2, <3>3, <3>4 DEF FlowInv
        <2> QED BY <2>2, <2>11, <2>12, <2>13
    <1> QED BY <1>5, <1>6

-----------------------------------------------------------------------------

\* The invariant is inductive.
LEMMA StepFlow == ASSUME FlowAssumption PROVE FlowInv /\ [Next]_vars => FlowInv'
    <1> SUFFICES ASSUME FlowInv, [Next]_vars PROVE FlowInv'
        OBVIOUS
    <1>1. CASE DispatchDrop
        BY <1>1, DropStep
    <1>2. CASE ConfirmUpload
        BY <1>2, ConfirmUploadStep
    <1>3. CASE CancelUploadDialog
        BY <1>3, UploadRefused DEF CancelUploadDialog
    <1>4. CASE PumpResult
        BY <1>4, PumpStep
    <1>5. CASE ConfirmOverwrite
        BY <1>5, AnswerStep DEF ConfirmOverwrite, StartUploadsWith
    <1>6. CASE CancelOverwrite
        BY <1>6, AnswerStep DEF CancelOverwrite
    <1>7. ASSUME NEW r \in listing, ListingEnds(r) PROVE FlowInv'
        BY <1>7, ListingStep
    <1>8. ASSUME NEW t \in Tabs, SwitchTab(t) \/ CloseTab(t) PROVE FlowInv'
        <2>1. tabs \subseteq Tabs /\ active \in Tabs
            BY DEF FlowInv, Places
        <2>2. /\ UNCHANGED <<dropped, uploadDialog, overwriteDialog, nextRequest, pendingCheck,
                             listing, results, started, confirmed, found, settled>>
              /\ tabs' \subseteq Tabs /\ active' \in Tabs
            BY <1>8, <2>1 DEF SwitchTab, CloseTab
        <2> QED BY <2>2, TabSteps
    <1>9. CASE UNCHANGED vars
        BY <1>9, TabSteps DEF vars, FlowInv, Places
    <1> QED BY <1>1, <1>2, <1>3, <1>4, <1>5, <1>6, <1>7, <1>8, <1>9 DEF Next

\* What the runs check follows from the invariant.
LEMMA FlowMeans ==
    FlowInv => TypeOK /\ UploadsGoWhereDropped /\ NoUnverifiedUpload /\ SettledOnce
    <1> SUFFICES ASSUME FlowInv
                 PROVE  TypeOK /\ UploadsGoWhereDropped /\ NoUnverifiedUpload /\ SettledOnce
        OBVIOUS
    <1>1. \A u \in started : /\ IsDrop([batch |-> u[1], tab |-> u[2]])
                            /\ u[1] \in 1 .. Len(dropped) /\ u[1] # 0
        <2>1. SUFFICES ASSUME NEW u \in started
                       PROVE  /\ IsDrop([batch |-> u[1], tab |-> u[2]])
                              /\ u[1] \in 1 .. Len(dropped) /\ u[1] # 0
            OBVIOUS
        <2>2. IsDrop([batch |-> u[1], tab |-> u[2]])
            BY DEF FlowInv, Places
        <2>3. /\ [batch |-> u[1], tab |-> u[2]].batch \in 1 .. Len(dropped)
              /\ [batch |-> u[1], tab |-> u[2]].batch # 0
            BY <2>2, Waiting
        <2> QED BY <2>2, <2>3
    <1>2. \A d \in {uploadDialog, overwriteDialog} \cup Range(pendingCheck) :
             d = None \/ IsDrop(d)
        BY DEF FlowInv, Places, Range
    <1>3. DOMAIN dropped = 1 .. Len(dropped)
        BY DEF FlowInv, Places
    <1>4. TypeOK
        <2>1. \A d \in {uploadDialog, overwriteDialog} \cup Range(pendingCheck) :
                  d = None \/ (d.batch \in DOMAIN dropped /\ d.tab \in Ssh)
            BY <1>2, <1>3, Waiting DEF IsDrop
        <2> QED BY <2>1 DEF FlowInv, Places, Requests, TypeOK
    <1>5. UploadsGoWhereDropped
        BY <1>1 DEF UploadsGoWhereDropped, IsDrop
    <1>6. SettledOnce
        <2> DEFINE begun == {u[1] : u \in started}
        <2>1. settled \cap begun = {}
            BY DEF FlowInv, OnePlace
        <2>2. 0 \notin Over
            <3>1. settled \subseteq 1 .. Len(dropped) /\ Len(dropped) \in Nat
                <4>1. dropped \in Seq(Tabs) /\ settled \subseteq 1 .. Len(dropped)
                    BY DEF FlowInv, Places
                <4> QED BY <4>1, Elements
            <3>2. \A u \in started : u[1] # 0
                BY <1>1
            <3>3. 0 \notin settled
                BY <3>1
            <3> QED BY <3>2, <3>3 DEF Over
        <2>3. uploadDialog.batch \notin Over /\ overwriteDialog.batch \notin Over
            BY <2>2 DEF FlowInv, OnePlace, None
        <2>4. \A d \in Range(pendingCheck) : d.batch \notin Over
            BY DEF FlowInv, OnePlace, Range
        <2> QED BY <2>1, <2>3, <2>4 DEF SettledOnce, Over
    <1> QED BY <1>4, <1>5, <1>6 DEF FlowInv

(* For every set of tabs and every number of drops, whatever tab is shown or closed  *)
(* between the drop, the listing and the answers (app/sftp.rs): uploads start for    *)
(* the tab the files were dropped on, only after a listing that found nothing or an  *)
(* answered question, and a batch that is over waits in no dialog and no check.      *)
THEOREM FlowCorrect ==
    ASSUME FlowAssumption
    PROVE  Spec => [](TypeOK /\ UploadsGoWhereDropped /\ NoUnverifiedUpload /\ SettledOnce)
    <1>1. Init => FlowInv
        BY InitFlow
    <1>2. FlowInv /\ [Next]_vars => FlowInv'
        BY StepFlow
    <1>3. FlowInv => TypeOK /\ UploadsGoWhereDropped /\ NoUnverifiedUpload /\ SettledOnce
        BY FlowMeans
    <1> QED BY <1>1, <1>2, <1>3, PTL DEF Spec

=============================================================================
