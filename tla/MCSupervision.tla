---------------------------- MODULE MCSupervision ----------------------------
(* An instance of Supervision for TLC: a stdio adapter, an HTTP adapter of   *)
(* the same name and a Docker adapter, and two goroutines.                   *)
EXTENDS Supervision, TLC

CONSTANTS g1, g2, s, h, d, p1, p2, one, two

Server(n, t, co, u) == [name |-> n, transport |-> t, command |-> co, url |-> u]
Image(i, p, q) == [image |-> i, port |-> p, hostPort |-> q]
File(e, r, j, ss, ks) ==
    [ext |-> e, readable |-> r, json |-> j, servers |-> ss, containers |-> ks]
Json(ss, ks) == File(".json", TRUE, TRUE, ss, ks)

Child   == Server(one, "stdio", TRUE, FALSE)
Remote  == Server(one, "http", FALSE, TRUE)
Box     == Image(TRUE, 8080, 0)

AServer == {Server(n, t, co, u) : n \in {one, None}, t \in Transports,
                                  co \in BOOLEAN, u \in BOOLEAN}
AnImage == {Image(i, p, q) : i \in BOOLEAN, p \in {-1, 0, 65536}, q \in {-1, 65535}}

GoodFile == Json(<<Child, Remote>>, <<Box>>)
InitFiles ==
    {Json(<<x, y>>, <<Box>>) : x \in AServer, y \in AServer}
    \cup {Json(<<x>>, <<k, Box>>) : x \in {Child, Server(None, "stdio", TRUE, FALSE)}, k \in AnImage}
    \cup {Json(<<>>, <<>>), GoodFile}
    \cup {File(e, r, j, <<Child>>, <<>>) : e \in {".json", ".yaml", ".toml"}, r \in BOOLEAN, j \in BOOLEAN}
DeployedFiles == {GoodFile, Json(<<Server(one, "stdio", FALSE, FALSE), Remote>>, <<Box>>)}

EntryOf == s :> 1 @@ h :> 2 @@ d :> 1
DockerNames == d :> two
=============================================================================
