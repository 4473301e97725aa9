---------------------------- MODULE FileLoaders ----------------------------
(***************************************************************************)
(* The two loaders of files that change while the program runs: the TLS    *)
(* certificate and the geo databases.                                      *)
(***************************************************************************)
EXTENDS CertLoader, GeoLoader

\* A certificate cache that counts as up to date is the pair on disk (certloader.go).  A
\* geo database is given up neither to a download that failed, broke or was interrupted, nor
\* for an empty one without a try at a better (geoloader.go); an empty download does replace it.
ReloadsAreSafe == UpToDateIsCurrent /\ LastGoodSurvives
============================================================================
