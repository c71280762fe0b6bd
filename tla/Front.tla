-------------------------------- MODULE Front --------------------------------
(***************************************************************************)
(* The parts an operator meets in one request after another, side by side:  *)
(* the photographs of a listing, accounts and sign-in, the search, the      *)
(* stills of the panel, the organiser of Drive folders and what curation    *)
(* suggests to leave out.                                                   *)
(* They share no state; in a behaviour one part is busy and the others are  *)
(* at rest, in the state they start in.                                     *)
(***************************************************************************)
EXTENDS ListingItems, Accounts, Search, Grabs, Organizer, Curate

VARIABLE busyPart       \* the part that is busy in this behaviour

frontVars ==
    <<busyPart, itemVars, accountVars, searchVars, grabVars, organizerVars, curateVars>>

ItemsMove ==
    /\ busyPart = "items"
    /\ UNCHANGED <<busyPart, accountVars, searchVars, grabVars, organizerVars, curateVars>>
AccountsMove ==
    /\ busyPart = "accounts"
    /\ UNCHANGED <<busyPart, itemVars, searchVars, grabVars, organizerVars, curateVars>>
SearchMoves ==
    /\ busyPart = "search"
    /\ UNCHANGED <<busyPart, itemVars, accountVars, grabVars, organizerVars, curateVars>>
GrabsMove ==
    /\ busyPart = "grabs"
    /\ UNCHANGED <<busyPart, itemVars, accountVars, searchVars, organizerVars, curateVars>>
OrganizerMoves ==
    /\ busyPart = "organizer"
    /\ UNCHANGED <<busyPart, itemVars, accountVars, searchVars, grabVars, curateVars>>
CurateMoves ==
    /\ busyPart = "curate"
    /\ UNCHANGED <<busyPart, itemVars, accountVars, searchVars, grabVars, organizerVars>>

FrontInit ==
    /\ busyPart \in {"items", "accounts", "search", "grabs", "organizer", "curate"}
    /\ ItemsInit /\ AccountsInit /\ SearchInit /\ GrabsInit /\ OrganizerInit /\ CurateInit

FrontNext ==
    \/ ItemsMove /\ ItemsNext
    \/ AccountsMove /\ AccountsNext
    \/ SearchMoves /\ SearchNext
    \/ GrabsMove /\ GrabsNext
    \/ OrganizerMoves /\ OrganizerNext
    \/ CurateMoves /\ CurateNext

FrontSpec == FrontInit /\ [][FrontNext]_frontVars

-----------------------------------------------------------------------------
(* The photographs of a listing (api/v1/listings.py): no two in one place,  *)
(* and a room the operator confirmed stays what the operator chose.         *)
ItemsCorrect ==
    /\ [](ItemsTypeOK /\ PositionsApart)
    /\ ConfirmedRoomHeld

(* Accounts (auth): one first administrator, an active factor its owner has *)
(* shown, recovery codes used once, sessions that live while they are used, *)
(* and guesses bounded by the lock.                                         *)
AccountsCorrect ==
    /\ AccountsTypeOK /\ OneFirstAdmin /\ ActiveIsProven
    /\ CodesSpent /\ ActiveStaysIn /\ GuessesBounded

(* Search (api/v1/search.py, panel.py): neither neighbouring frames nor     *)
(* hits of a part of the words displace what is nearer or more precise, and *)
(* what is answered is there.                                               *)
SearchCorrect ==
    /\ [](SearchTypeOK /\ VisualIsExact /\ MomentIsPrecise)
    /\ FoundIsThere

(* The stills of the panel (api/v1/panel.py): the cap and the free-space    *)
(* floor hold over a burst, a still is not extracted again, and none is     *)
(* served half written.                                                     *)
GrabsCorrect ==
    /\ [](GrabsTypeOK /\ CapHeld /\ FloorHeld)
    /\ NotGrabbedTwice
    /\ ServedIsWhole

(* The Drive organiser (integrations/organize.py, api/v1/gdrive.py): names  *)
(* keep their stems, undo restores them, and a folder once organised keeps  *)
(* a manifest until it is put back.                                         *)
OrganizerCorrect ==
    /\ [](OrganizerTypeOK /\ StemKept /\ UndoRestores)
    /\ ManifestSurvives

(* Curation (media/curate.py): near-duplicates are offered up but for the   *)
(* sharpest, and no room loses its last photograph.                         *)
CurateCorrect ==
    /\ [](CurateTypeOK /\ NearOnesGo)
    /\ RoomsStay

=============================================================================
