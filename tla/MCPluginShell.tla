---------------------------- MODULE MCPluginShell ----------------------------
(* Two files, whose plugins have different ids; the client adds the ids that *)
(* the plugins give themselves and the one that the handles have.            *)
EXTENDS PluginShell, TLC

CONSTANTS f1, f2, a, b

TwoIds == f1 :> a @@ f2 :> b
ThreeEntries == {NoId, a, b}
=============================================================================
