---------------------------- MODULE MCAtlasWorkload ----------------------------
(* An instance of AtlasWorkload for TLC: two groups with an application of    *)
(* the same name, which another listener's name starts with, and one        *)
(* application with a name of its own.                                      *)
EXTENDS AtlasWorkload

MCNames == {"s3", "s3-console", "web"}
MCPrefixes == {<<a, a>> : a \in MCNames} \cup {<<"s3", "s3-console">>}
MCWorkloads == {<<"team-a", "s3">>, <<"team-b", "s3">>, <<"team-a", "web">>}
MCPlatformFile == <<Heading>> \o RenderListener("s3-console")
MCOptions == {[force |-> f, sync |-> s, push |-> FALSE] : f, s \in BOOLEAN}
               \cup {[force |-> FALSE, sync |-> TRUE, push |-> TRUE]}

=============================================================================
