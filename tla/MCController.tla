---------------------------- MODULE MCController ----------------------------
(***************************************************************************)
(* The task that boots and the loader's two HTTP workers, two shows, and   *)
(* generations that wrap round after the fourth upload.                    *)
(***************************************************************************)
EXTENDS Controller
=============================================================================
