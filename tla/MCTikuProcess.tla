--------------------------- MODULE MCTikuProcess ---------------------------
(* Small instances of TikuProcess. *)
EXTENDS TikuProcess

CONSTANTS sh, a, b

(* The shell kills, resumes, registers and pumps; process a is supervised,   *)
(* fails, and is asked to exit.                                              *)
PairBoot == <<sh, a>>
PairProgram ==
  {<<sh, "stop", a>>, <<sh, "resume", a>>, <<sh, "register", a>>,
   <<sh, "pump", NULL>>, <<sh, "FORCE_EXIT", a>>,
   <<a, "fail", a>>, <<a, "ON_FAILURE", a>>, <<a, "USER", sh>>}

(* Three nodes on the list, edited from the bodies a broadcast calls.        *)
TrioBoot == <<sh, a, b>>
TrioProgram ==
  {<<sh, "stop", a>>, <<sh, "resume", a>>, <<sh, "register", a>>,
   <<sh, "exit", b>>, <<a, "exit", b>>, <<a, "start", b>>, <<b, "exit", a>>,
   <<b, "ALWAYS", b>>}

(* The shell kills the process of the BLE link; opening the link again        *)
(* registers and starts it (tiku_link_ble.c).                                *)
ShellBoot == <<sh>>
ReopenProgram == {<<sh, "register", a>>, <<sh, "stop", a>>, <<sh, "start", a>>}

(* A supervised process that keeps the shell's mailbox full.                 *)
MailProgram == {<<a, "ALWAYS", a>>, <<a, "USER", sh>>}
=============================================================================
