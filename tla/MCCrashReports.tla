--------------------------- MODULE MCCrashReports ---------------------------
(* An instance of CrashReports for TLC: two objects at one directory, deployed   *)
(* before and after the row became that of a web application.                    *)
EXTENDS CrashReports

CONSTANTS plain, web
MCObject == {plain, web}
MCWebApp == [o \in MCObject |-> o = web]

==============================================================================
