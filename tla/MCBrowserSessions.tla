-------------------------- MODULE MCBrowserSessions --------------------------
(***************************************************************************)
(* Two tasks and two ids: enough for two opens of one id to meet, for an   *)
(* open to meet a close, and for both to meet the shutdown.                *)
(***************************************************************************)
EXTENDS BrowserSessions, TLC
CONSTANTS t1, t2, a1, a2
MCTasks == {t1, t2}
MCIds == {a1, a2}
=============================================================================
