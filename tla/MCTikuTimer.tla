---------------------------- MODULE MCTikuTimer ----------------------------
(* Small instances of TikuTimer. *)
EXTENDS TikuTimer

CONSTANTS p, q, timeout, period

(* p waits with a timeout and opens windows; q allows deep sleep and sets a     *)
(* timer whose callback keeps its period, ends p and starts it again.           *)
PeriodicProgram ==
  {<<p, "wait", timeout>>, <<p, "window", NULL>>,
   <<q, "callback", period>>, <<q, "deep", NULL>>,
   <<period, "reset", period>>, <<period, "restart", period>>, <<period, "stop", period>>,
   <<period, "light", NULL>>, <<period, "exit", p>>, <<period, "start", p>>}

(* p starts q and then waits with a timeout. *)
StartProgram == {<<p, "start", q>>, <<p, "wait", timeout>>}
=============================================================================
