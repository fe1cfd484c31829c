---------------------------- MODULE MCMsmInstall ----------------------------
EXTENDS MsmInstall, TLC

CONSTANTS rooted, plain, foreign, older, rebuilt

MCHardwareId == rooted :> "root_tap0901" @@ plain :> "tap0901"

\* Two builds of one version.
MCTime == older :> 1 @@ rebuilt :> 2
MCVersion == older :> 1 @@ rebuilt :> 1
=============================================================================
