------------------------- MODULE MCReleasePipeline -------------------------
(* Two libraries that pack into the shared staging directory, one of them  *)
(* also an image on a foreign registry, and a workspace package they need.  *)
EXTENDS ReleasePipeline

MCWorkspace == {"util", "lib", "app"}
MCProjects == {"lib", "app"}
MCAssets == {"tgz", "zip"}
MCDeps == [w \in MCWorkspace |-> IF w = "util" THEN {} ELSE {"util"}]
MCPacks == [p \in MCProjects |-> IF p = "lib" THEN {"ng-lib"} ELSE {"ng-lib", "image"}]
MCAssetSeq == [p \in MCProjects |-> IF p = "lib" THEN <<"tgz">> ELSE <<"zip", "tgz">>]
MCProjectSeq == <<"lib", "app">>

Npm(p) == [kind |-> "npm", asset |-> "tgz", github |-> TRUE, pointed |-> TRUE, proj |-> p]
AppImage == [kind |-> "docker", asset |-> None, github |-> FALSE, pointed |-> TRUE,
             proj |-> "app"]
MCTargets == {Npm("lib"), Npm("app"), AppImage}
MCTargetSeq == [p \in MCProjects |-> IF p = "lib" THEN <<Npm(p)>> ELSE <<Npm(p), AppImage>>]
=============================================================================
