----------------------------- MODULE GeoLoader -----------------------------
(***************************************************************************)
(* GeoLoader of app/internal/utils: the GeoIP and GeoSite databases of the  *)
(* ACL engine, downloaded when no file is configured, kept on disk between  *)
(* runs of the program and loaded at most once per run.  A download may     *)
(* fail, be cut off or carry a broken or an empty file, any access to the   *)
(* file may fail, and the program may be stopped between any two steps.     *)
(* The two databases use the same code: the module has one, LoadGeoIP and   *)
(* LoadGeoSite are both Load.                                               *)
(***************************************************************************)
EXTENDS Naturals

CONSTANTS MaxRuns       \* bound: how often the program is started

VARIABLES geoAt,        \* where the loader is
          geoAuto,      \* no filename is configured
          geoFile,      \* the downloaded file: absent, empty, broken or good
          geoOld,       \* the file is older than the update interval
          geoTemp,      \* the temporary file of a download
          geoMap,       \* l.geoipMap or l.geositeMap, or "error" when the load failed
          geoRuns,      \* starts of the program
          wasGood,      \* history: a good file has been in place
          emptied,      \* history: the file in place came empty from a download
          geoTried,     \* history: this run of the program tried to download
          ioFailed      \* history: this run could not read the file

history == <<wasGood, emptied, geoTried, ioFailed>>

geoVars == <<geoAt, geoAuto, geoFile, geoOld, geoTemp, geoMap, geoRuns, history>>

\* The working directory may hold a file of any kind.
InitGeo ==
    /\ geoAt = "idle"
    /\ geoAuto = TRUE
    /\ geoFile \in {"absent", "empty", "broken", "good"}
    /\ geoOld = FALSE
    /\ geoTemp = "absent"
    /\ geoMap = "nil"
    /\ geoRuns = 1
    /\ wasGood = (geoFile = "good")
    /\ emptied = FALSE /\ geoTried = FALSE /\ ioFailed = FALSE

\* v2geo.LoadGeoIP parses an empty file as an empty database.
Loadable(f) == f \in {"empty", "good"}

\* shouldDownload: "empty files are loadable by v2geo, but we consider it broken".
ShouldDownload == geoFile \in {"absent", "empty"} \/ geoOld

\* v2geo.LoadGeoIP of the file in place, which an I/O error may keep from being read.
LoadFile(f) ==
    \/ geoMap' = (IF Loadable(f) THEN f ELSE "error") /\ UNCHANGED ioFailed
    \/ geoMap' = "error" /\ ioFailed' = TRUE

\* LoadGeoIP, LoadGeoSite with a configured file, loaded as it is.
LoadConfigured ==
    /\ geoAt = "idle" /\ geoMap = "nil" /\ ~geoAuto
    /\ geoMap' \in {"empty", "good", "error"}
    /\ UNCHANGED <<geoAt, geoAuto, geoFile, geoOld, geoTemp, geoRuns, history>>

\* Without one: a recent file, or a download when there is none or it cannot be
\* read or parsed.  A stat that fails for another reason than a missing file leaves
\* shouldDownload without file info, and the program dereferences it.
Load ==
    /\ geoAt = "idle" /\ geoMap = "nil" /\ geoAuto
    /\ \/ geoAt' = "panicked" /\ UNCHANGED <<geoMap, geoTried>>
       \/ ~ShouldDownload /\ Loadable(geoFile) /\ geoMap' = geoFile /\ UNCHANGED <<geoAt, geoTried>>
       \/ geoAt' = "get" /\ geoTried' = TRUE /\ UNCHANGED geoMap
    /\ UNCHANGED <<geoAuto, geoFile, geoOld, geoTemp, geoRuns, wasGood, emptied, ioFailed>>

\* os.Remove of the temporary file is deferred; as long as the previous download
\* exists it is loaded, otherwise the error is returned.
Failed ==
    /\ geoAt' = "idle"
    /\ geoTemp' = "absent"
    /\ LoadFile(geoFile)
    /\ UNCHANGED <<geoAuto, geoFile, geoOld, geoRuns, wasGood, emptied, geoTried>>

\* http.Get and io.Copy into a temporary file, whatever arrives.
Download ==
    /\ geoAt = "get"
    /\ \/ Failed
       \/ /\ geoTemp' \in {"empty", "broken", "good"}
          /\ geoAt' = "check"
          /\ UNCHANGED <<geoAuto, geoFile, geoOld, geoMap, geoRuns, history>>

\* checkFunc, which lets an empty file pass, then os.Rename over the file in
\* place, which may fail; then the load.
CheckAndRename ==
    /\ geoAt = "check"
    /\ \/ Failed
       \/ /\ Loadable(geoTemp)
          /\ geoFile' = geoTemp
          /\ geoTemp' = "absent"
          /\ geoOld' = FALSE
          /\ LoadFile(geoTemp)
          /\ geoAt' = "idle"
          /\ wasGood' = (wasGood \/ geoTemp = "good")
          /\ emptied' = (geoTemp = "empty")
          /\ UNCHANGED <<geoAuto, geoRuns, geoTried>>

\* Time passes.
Age == geoFile # "absent" /\ ~geoOld /\ geoOld' = TRUE
       /\ UNCHANGED <<geoAt, geoAuto, geoFile, geoTemp, geoMap, geoRuns, history>>

\* The program is stopped at any point and started again, with or without a configured filename.
Restart ==
    /\ geoRuns < MaxRuns
    /\ geoRuns' = geoRuns + 1
    /\ geoAuto' \in BOOLEAN
    /\ geoMap' = "nil"
    /\ geoAt' = "idle"
    /\ geoTried' = FALSE /\ ioFailed' = FALSE
    /\ UNCHANGED <<geoFile, geoOld, geoTemp, wasGood, emptied>>

NextGeo == LoadConfigured \/ Load \/ Download \/ CheckAndRename \/ Age \/ Restart

SpecGeo == InitGeo /\ [][NextGeo]_geoVars

----------------------------------------------------------------------------

\* Once a good database has been in place, failed, broken or interrupted downloads
\* leave it there, and loading it fails only when the file cannot be read: the one
\* download that takes its place without being good is an empty one, which the check
\* lets pass.  An empty database is never loaded before a download was tried.
LastGoodSurvives ==
    /\ wasGood => geoFile = "good" \/ (geoFile = "empty" /\ emptied)
    /\ geoAuto /\ geoMap = "error" => ioFailed \/ ~wasGood
    /\ geoAuto /\ geoMap = "empty" => geoTried
============================================================================
