----------------------------- MODULE MCStartup -----------------------------
(* TLC instance of Startup: two classes of events, and every combination   *)
(* of the variables that decide about transports, of each class of values. *)
EXTENDS Startup

MCEnvironments ==
  [http : {"absent", "text", "zero", "negative", "port"},
   ws : {"absent", "port"},
   webhook : {"absent", "url"},
   wsUrl : {"empty", "url"},
   enable : {"absent", "1", "false"},
   kind : {"absent", "http", "ipc-child", "ipc-parent", "electron-ipc-main",
           "electron-ipc-renderer", "shared-worker-server"},
   ipc : {"absent", "ipc-child", "ipc-parent", "electron-ipc"}]

MCEventClasses == {"Initialized", "BlocksAdded"}
=============================================================================
