---------------------------- MODULE MCHttpServer ----------------------------
(* Two clients for TLC: one asks for a file or for something outside, the  *)
(* other for everything else that a path can lead to.                      *)
EXTENDS HttpServer

CONSTANTS c1, c2

MCAsks(c) ==
  IF c = c1 THEN {"outside", "file"}
            ELSE {"missing", "vanished", "unreadable", "sibling", "index", "listing"}
=============================================================================
