------------------------------ MODULE MCLogins -------------------------------
(* Logins: two of them, on two ports or by hand, with two goroutines in    *)
(* the callback servers, two finishes at a time and two events.            *)
EXTENDS Logins
==============================================================================
