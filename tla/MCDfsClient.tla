---------------------------- MODULE MCDfsClient ----------------------------
(* A namespace of four shares: links behind links, root targets, links in a   *)
(* circle, and what an administrator may change.                              *)
EXTENDS DfsClient

CONSTANTS N, A, B, C, n0, t1, t2

MCShares == {N, A, B, C}

To(share, prefix) == [share |-> share, prefix |-> prefix]
LinkAt(share, path, targets) == [share |-> share, path |-> path, targets |-> targets]
Up == [s \in MCShares |-> "up"]
Plain == [s \in MCShares |-> <<>>]
W(resolver, status, roots, links) ==
  [resolver |-> resolver, status |-> status, roots |-> roots, links |-> links]

\* A link with two targets, behind the first of them another link; the first target
\* is taken out of service.
Linked ==
  <<W("native", Up, Plain, {LinkAt(N, <<"l">>, <<To(A, <<"d">>), To(B, <<"d">>)>>),
                            LinkAt(A, <<"d", "e">>, <<To(C, <<"m">>)>>)}),
    W("native", [Up EXCEPT ![A] = "down"], Plain,
      {LinkAt(N, <<"l">>, <<To(B, <<"d">>)>>)})>>

\* A share that is a namespace only; a root target is replaced.
Rooted ==
  <<W("native", [Up EXCEPT ![N] = "gone"],
      [Plain EXCEPT ![N] = <<To(A, <<>>), To(B, <<>>)>>], {}),
    W("native", [Up EXCEPT ![N] = "gone", ![A] = "gone"],
      [Plain EXCEPT ![N] = <<To(C, <<>>)>>], {})>>

\* Links in a circle, until one of them is repaired.
Circle ==
  <<W("native", Up, Plain, {LinkAt(N, <<"l">>, <<To(A, <<"d">>)>>),
                            LinkAt(A, <<"d">>, <<To(B, <<"d">>)>>),
                            LinkAt(B, <<"d">>, <<To(A, <<"d">>)>>)}),
    W("native", Up, Plain, {LinkAt(N, <<"l">>, <<To(A, <<"d">>)>>),
                            LinkAt(A, <<"d">>, <<To(B, <<"d">>)>>)})>>

\* With smbclient: the targets of links are shares.
Smbclient ==
  <<W("smbclient", Up, Plain, {LinkAt(N, <<"l">>, <<To(A, <<>>)>>)}),
    W("smbclient", [Up EXCEPT ![A] = "denying"], Plain,
      {LinkAt(N, <<"l">>, <<To(B, <<>>)>>)})>>

\* A link to a folder of a share that has other root targets and refuses the user.
Replicated ==
  <<W("native", [Up EXCEPT ![A] = "denying"], [Plain EXCEPT ![A] = <<To(A, <<>>), To(B, <<>>)>>],
      {LinkAt(N, <<"l">>, <<To(A, <<"d">>)>>)})>>

\* A link to a folder below a link of the target share.
Below ==
  <<W("native", Up, Plain, {LinkAt(N, <<"l">>, <<To(A, <<"d", "f">>)>>),
                            LinkAt(A, <<"d">>, <<To(B, <<"q">>)>>)})>>

\* There is no resolver at first; the target of a link is closed, and replaced.
Closed ==
  <<W("none", Up, Plain, {LinkAt(N, <<"l">>, <<To(A, <<>>), To(B, <<"d">>)>>)}),
    W("native", [Up EXCEPT ![A] = "closed"], Plain,
      {LinkAt(N, <<"l">>, <<To(A, <<>>), To(B, <<"d">>)>>)}),
    W("native", Up, Plain, {LinkAt(N, <<"l">>, <<To(B, <<"d">>)>>)})>>

\* No links and no root targets, and a share that is not there yet.
Late == <<W("native", [Up EXCEPT ![N] = "gone"], Plain, {}), W("native", Up, Plain, {})>>

MCHistories == {Linked, Rooted, Circle, Smbclient, Replicated, Below, Closed,
                Late}

Req(kind, path, to) == [kind |-> kind, path |-> path, to |-> to]

\* One thread runs every kind of operation, the other lists.
MCRequests ==
  t1 :> {Req("list", <<"l", "e">>, <<>>), Req("check", <<>>, <<>>),
         Req("rename", <<"l", "e">>, <<"l", "g">>), Req("copy", <<"l", "e">>, <<"k">>)}
  @@ t2 :> {Req("list", <<"l", "e">>, <<>>)}
=============================================================================
