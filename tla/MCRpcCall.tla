----------------------------- MODULE MCRpcCall -----------------------------
(***************************************************************************)
(* Two clients, and one method of each kind of stub: the stop-after-       *)
(* current flag of the player toggled, set and read, and test_version;     *)
(* and save_playlist, to a path where writing fails or does not.           *)
(***************************************************************************)
EXTENDS RpcCall

MCTemplate == [toggle_stop_after_current |-> "event",
               set_stop_after_current    |-> "param",
               get_stop_after_current    |-> "result",
               test_version              |-> "param and result",
               save_playlist             |-> "param and result"]

MCMethods == DOMAIN MCTemplate \cup {"no_such_method"}
MCRegistered == DOMAIN MCTemplate

MCEffect(m, p, s) == CASE m = "toggle_stop_after_current" -> ~s
                       [] m = "set_stop_after_current" -> p
                       [] OTHER -> s

MCAnswer(m, p, s) == CASE m = "get_stop_after_current" -> s
                       [] m = "test_version" -> p
                       [] OTHER -> TRUE

MCThrows(m, p, s) == m = "save_playlist" /\ ~p

MCBooleans == {TRUE, FALSE}
=============================================================================
