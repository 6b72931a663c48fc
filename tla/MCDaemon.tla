------------------------------ MODULE MCDaemon ------------------------------
(***************************************************************************)
(* Instances of Daemon: a few ways a user starts "tahu serve", among them  *)
(* every way its settings can contradict each other or be refused.         *)
(***************************************************************************)
EXTENDS Daemon, TLC

MCNotNumbers == {"words"}
MCNotPorts == {"0", "70000"}
MCLoopback == {"127.0.0.1", "::1", "localhost"}
MCHostOf == [b \in {"127.0.0.1", "localhost", "0.0.0.0", "[::1]"} |->
               IF b = "[::1]" THEN "::1" ELSE b]

Told(file, env, flags) == [file |-> file, env |-> env, flags |-> flags]
Http == [Nothing EXCEPT !["transport"] = "http"]
HttpOn(p) == [Http EXCEPT !["port"] = p]
Only(k, v) == [Nothing EXCEPT ![k] = v]

MCSettings ==
  { Told(Nothing, Nothing, Nothing),
    Told(HttpOn("3001"), Only("transport", "stdio"), Nothing),
    Told(HttpOn("3001"), Only("port", "words"), Only("bind", "[::1]")),
    Told(Http, Nothing, Only("bind", "::1")),
    Told(HttpOn("3001"), Only("port", "3002"), Nothing),
    Told(Only("port", "3001"), Only("transport", "stdio"), HttpOn("0")),
    Told([Http EXCEPT !["bind"] = "0.0.0.0"], Nothing, Nothing),
    Told(Only("transport", "http"), Nothing, Only("transport", "grpc")),
    Told(Only("model", "minilm-l6-v2"), Nothing, Nothing),
    Told(Only("port", "70000"), Nothing, Only("port", "3001")),
    Told(Nothing, Only("log", "loud"), Nothing),
    Told(Only("batch", "0"), Nothing, Nothing),
    Told(BadFile, Http, Nothing) }

\* The documented command that binds to every interface.
BindFlag ==
  { Told(Nothing, Nothing, [HttpOn("8080") EXCEPT !["bind"] = "0.0.0.0"]) }

MCAlike == Permutations(Reqs)
=============================================================================
