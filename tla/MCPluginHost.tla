---------------------------- MODULE MCPluginHost ----------------------------
(* The plug-ins of one recording, with budgets that are soon used up.       *)
EXTENDS PluginHost
MCRestartDelay == <<1>>
=============================================================================
