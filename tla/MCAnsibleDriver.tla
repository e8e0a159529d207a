--------------------------- MODULE MCAnsibleDriver ---------------------------
(* Three psinet hosts at two providers; one is a test host, one is in the  *)
(* subset lists.                                                           *)
EXTENDS AnsibleDriver

MCProviderOf == [h \in PsinetHosts |-> IF h = "ha" THEN "linode" ELSE "digitalocean"]
=============================================================================
