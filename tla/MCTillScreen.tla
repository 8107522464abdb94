---------------------------- MODULE MCTillScreen ----------------------------
(***************************************************************************)
(* The till screen for model checking.  The bounds of Till.tla admit more    *)
(* than TLC can visit, so a page is loaded again, or reads its list again    *)
(* after a lost connection, only in behaviours that are small otherwise.     *)
(***************************************************************************)
EXTENDS Till

\* bound: the sales that are opened, the lines that are added, the keys that
\* are drawn and what others do
Small(sales, lines, keys, elsewhere) ==
    /\ \A s \in Sales : s > sales => status[s] = "unborn"
    /\ lastLine <= lines
    /\ drawn <= keys
    /\ spent.elsewhere <= elsewhere

Within ==
    /\ spent.elsewhere > 0 => Small(2, 2, 1, 1)
    /\ spent.reload > 0 => Small(1, 1, 1, 1) \/ Small(1, 2, 1, 0) \/ Small(2, 0, 0, 0)
    /\ spent.refetch > 0 => spent.reload = 0 /\ Small(2, 1, 0, 0)

BoundedNext == Next /\ Within'

\* Till.tla: requests end, answers are handled, effects run.
BoundedSpec ==
    /\ Init /\ [][BoundedNext]_vars
    /\ WF_vars(Effects)
    /\ WF_vars(Serve("open") \/ Fail("open", "failed"))
    /\ WF_vars(Opened \/ OpenFailed)

=============================================================================
