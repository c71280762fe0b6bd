------------------------------- MODULE Backroom -------------------------------
(***************************************************************************)
(* The parts that work through many files at a time, side by side: renders  *)
(* of slideshows, the merge of libraries, the nightly collection of         *)
(* training pairs, the showcase of drone views, positions with their        *)
(* addresses, and the maps kept at home.  They share no state; in a         *)
(* behaviour one part is busy and the others are at rest, in the state they *)
(* start in.                                                                *)
(***************************************************************************)
EXTENDS Slideshow, MergeLibraries, TrainingPairs, Showcase, Locations,
        Basemaps

VARIABLE busyPart       \* the part that is busy in this behaviour

backroomVars ==
    <<busyPart, slideVars, mergeVars, pairsVars, showVars, locateVars, basemapVars>>

SlidesMove ==
    /\ busyPart = "slides"
    /\ UNCHANGED <<busyPart, mergeVars, pairsVars, showVars, locateVars, basemapVars>>
MergeMoves ==
    /\ busyPart = "merge"
    /\ UNCHANGED <<busyPart, slideVars, pairsVars, showVars, locateVars, basemapVars>>
PairsMove ==
    /\ busyPart = "pairs"
    /\ UNCHANGED <<busyPart, slideVars, mergeVars, showVars, locateVars, basemapVars>>
ShowcaseMoves ==
    /\ busyPart = "showcase"
    /\ UNCHANGED <<busyPart, slideVars, mergeVars, pairsVars, locateVars, basemapVars>>
LocationsMove ==
    /\ busyPart = "locations"
    /\ UNCHANGED <<busyPart, slideVars, mergeVars, pairsVars, showVars, basemapVars>>
BasemapsMove ==
    /\ busyPart = "basemaps"
    /\ UNCHANGED <<busyPart, slideVars, mergeVars, pairsVars, showVars, locateVars>>

BackroomInit ==
    /\ busyPart \in {"slides", "merge", "pairs", "showcase", "locations", "basemaps"}
    /\ SlidesInit /\ MergeInit /\ PairsInit
    /\ ShowcaseInit /\ LocationsInit /\ BasemapsInit

BackroomNext ==
    \/ SlidesMove /\ SlidesNext
    \/ MergeMoves /\ MergeNext
    \/ PairsMove /\ PairsNext
    \/ ShowcaseMoves /\ ShowcaseNext
    \/ LocationsMove /\ LocationsNext
    \/ BasemapsMove /\ BasemapsNext

(* A part's own fairness, while it is the one that is busy: workers go on,  *)
(* messages are delivered, the nightly collection comes round.  A renderer  *)
(* has nothing to do while another part is busy.                            *)
BackroomFairness ==
    /\ SlidesFairness
    /\ WF_backroomVars(PairsMove /\ Cataloguing) /\ WF_backroomVars(PairsMove /\ NightComes)
    /\ WF_backroomVars(PairsMove /\ \E p \in Passes : PassWorks(p))

BackroomSpec == BackroomInit /\ [][BackroomNext]_backroomVars /\ BackroomFairness

-----------------------------------------------------------------------------
(* Slideshows (media/slideshow.py, media/render.py, the render task): nobody*)
(* required is left out, the film is every slide whole and once, and what   *)
(* is served or deleted is what it says.                                    *)
SlidesCorrect == SlidesTypeOK /\ NobodyLeftOut /\ FilmIsWhole /\ WatchedIsFinished /\ DeletedIsGone

(* The merge of libraries (ops/merge_libraries.py): assets keep their files,*)
(* a library has one active scan, workstation paths lead where they led.    *)
MergeCorrect == MergeTypeOK /\ SameFile /\ OneActiveScan /\ MappingsHold

(* Training pairs (training/pairs.py, integrations/gdrive.py): what was     *)
(* recorded stays and is recorded once, downloads are whole, houses are not *)
(* mixed.                                                                   *)
PairsCorrect == [](PairsTypeOK /\ RecordedOnce /\ DoneIsWhole /\ SameHouse) /\ ReadableStays

(* The showcase (media/showcase.py, api/v1/showcase.py): what is offered is *)
(* offered once, ground views beside those from the air, of places that are *)
(* apart, and what is saved is numbered on from what was there.             *)
ShowcaseCorrect ==
    /\ [](ShowcaseTypeOK /\ OfferedOnce /\ GroundToo /\ PlacesApart)
    /\ NumbersContinue

(* Positions and addresses (the location tasks, media/geocoding.py): a      *)
(* position is lent by a camera's own only, never over a camera's own, and  *)
(* an address that was found stays.                                         *)
LocationsCorrect ==
    /\ [](LocationsTypeOK /\ OneHop /\ ExifStands)
    /\ AddressStays

(* Maps at home (the basemap task): what is installed is whole, and stays   *)
(* until it is deleted.                                                     *)
BasemapsCorrect ==
    /\ [](BasemapsTypeOK /\ InstalledIsWhole)
    /\ InstalledStays

(* Where pictures are shown: both of the above.                             *)
MapsCorrect == LocationsCorrect /\ BasemapsCorrect

(* The render task and the nightly collection of pairs: a render ends, and  *)
(* every pair by name is collected in the end.                              *)
BackroomEnds == RendersEnd /\ (busyPart = "pairs" => CollectedAtLast)

=============================================================================
