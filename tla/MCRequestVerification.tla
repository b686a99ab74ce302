----------------------- MODULE MCRequestVerification -----------------------
(***************************************************************************)
(* A small instance of RequestVerification: two requests that share a      *)
(* request id, a third whose stored parent refers to itself, one           *)
(* delegation under one root credential.                                   *)
(***************************************************************************)
EXTENDS RequestVerification, TLC

MCArtifact == {"root", "d1", "loop", "r1", "r2", "r3"}

Made(kind, parent, from, to) ==
    [kind |-> kind, parent |-> parent, notBefore |-> from, expiresAt |-> to]

MCSigned ==
    "root" :> Made("credential", None, 0, 9)
    @@ "d1" :> Made("delegation", "root", 0, 9)
    @@ "loop" :> Made("delegation", "loop", 0, 9)
    @@ "r1" :> Made("request", "d1", 0, 1)
    @@ "r2" :> Made("request", "d1", 2, 3)
    @@ "r3" :> Made("request", "loop", 0, 9)

MCReplayKey ==
    LET of(id, nonce) == [audience |-> "a", signer |-> "k", requestId |-> id, nonce |-> nonce]
    IN  "r1" :> of("i1", "n1") @@ "r2" :> of("i1", "n2") @@ "r3" :> of("i3", "n3")

How(online, replayRequired, hasStore) ==
    [online |-> online, replayRequired |-> replayRequired, hasStore |-> hasStore]

Protected == How(TRUE, TRUE, TRUE)

MCMode == {Protected, How(TRUE, TRUE, FALSE), How(FALSE, TRUE, TRUE)}

\* Every request is presented for a side effect, one of them also otherwise.
MCPresented == (Request \X {Protected}) \cup ({"r1"} \X MCMode)
=============================================================================
