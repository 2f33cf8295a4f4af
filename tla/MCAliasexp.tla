----------------------------- MODULE MCAliasexp -----------------------------
(***************************************************************************)
(* Instance of Aliasexp for TLC: two addresses of domain d, one of e, a    *)
(* catch-all alias of e or none, e an alias of d or not.                   *)
(***************************************************************************)
EXTENDS Aliasexp, TLC

U == <<"u", "d">>
V == <<"v", "d">>
W == <<"u", "e">>
ThreeAddresses == {U, V, W}
OneTag == "u+tag" :> "u"
SomeGotos == {{}, {V}, {W}, {U, W}, {<<"null", NoDomain>>, V}}
SomeTables ==
  [alias : [ThreeAddresses -> SomeGotos],
   catchall : {("d" :> {}) @@ ("e" :> goto) : goto \in {{}, {V}}},
   mailbox : [ThreeAddresses -> {"active", "inactive"}],
   target : {("d" :> NoDomain) @@ ("e" :> t) @@ (NoDomain :> NoDomain) : t \in {"d", NoDomain}}]
=============================================================================
