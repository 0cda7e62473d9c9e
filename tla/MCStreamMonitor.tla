-------------------------- MODULE MCStreamMonitor ---------------------------
EXTENDS StreamMonitor, TLC

MCStreams == <<"web", "jds">>
MCLevels == ("web" :> {"info", "error"}) @@ ("jds" :> {"error"})
=============================================================================
