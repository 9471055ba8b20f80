------------------------------ MODULE MCStores ------------------------------
(***************************************************************************)
(* The components around files, installs and the remote link, checked in   *)
(* one run.                                                                *)
(* They share no state, so each behaviour runs one of them, chosen at the  *)
(* start.                                                                  *)
(***************************************************************************)
EXTENDS PortLocks, LinkApp, LinkService, LinkProxy, GatewayStore, Pi, Toolchain, Catalog,
        HeaderPatch

VARIABLE part    \* the component of this behaviour

\* What the app, the service that runs the link without it, and the link's
\* model proxy promise: with the network switched off no client of either
\* runs, the files the service connects with are those of one pairing, and
\* each model call gets its own whole answer and its engine back.
LinksInv == /\ part = "link" => LinkAppInv
            /\ part = "service" => ServiceInv
            /\ part = "proxy" => ProxyInv
MCStacks == {<< <<"a">>, <<"a">>, <<>> >>}
MCNewAliases == {<<"b">>}
MCMaxBytes == <<2, 0>>

MCModelFiles == <<{1, 2}, {3}>>
MCShelves == {<<1, 2>>, <<1, 1>>}
MCCatKey == <<1, 1>>

MCHeaderLen == <<2, 2, 5, 4>>
MCWeightsOf == <<1, 1, 1, 2>>
MCWeightsLen == <<3, 1>>

\* The model library: scans, downloads, merges and file commands keep the
\* cache and the catalog true to the files, and a header update leaves the
\* weights behind a whole header.
LibraryInv == (part = "catalog" => CatalogInv) /\ (part = "patch" => PatchInv)

Init == /\ part \in {"locks", "link", "service", "proxy", "store", "pi", "toolchain", "catalog",
                      "patch"}
        /\ LocksInit /\ AppInit /\ ServiceInit /\ ProxyInit
        /\ StoreInit /\ PiInit /\ ToolchainInit /\ CatalogInit
        /\ PatchInit
        /\ (part # "link" => asHelper /\ invite)
        /\ (part # "store" => side = "files")
        /\ (part # "pi" => ~accepted /\ bundle = "all")
        /\ (part # "toolchain" => ~older /\ ~carried)
        /\ (part # "catalog" => shelf = <<1, 2>> /\ libFiles = [f \in LibFiles |-> 0])
components == <<lockVars, appVars, serviceVars, proxyVars, storeVars, piVars, tcVars, catalogVars,
                patchVars>>
Next == /\ UNCHANGED part
        /\ \/ part = "locks" /\ LocksNext
              /\ UNCHANGED <<appVars, serviceVars, proxyVars, storeVars, piVars, tcVars,
                            catalogVars, patchVars>>
           \/ part = "link" /\ AppNext
              /\ UNCHANGED <<lockVars, serviceVars, proxyVars, storeVars, piVars, tcVars,
                            catalogVars, patchVars>>
           \/ part = "service" /\ ServiceNext
              /\ UNCHANGED <<lockVars, appVars, proxyVars, storeVars, piVars, tcVars, catalogVars,
                            patchVars>>
           \/ part = "proxy" /\ ProxyNext
              /\ UNCHANGED <<lockVars, appVars, serviceVars, storeVars, piVars, tcVars,
                            catalogVars, patchVars>>
           \/ part = "store" /\ StoreNext
              /\ UNCHANGED <<lockVars, appVars, serviceVars, proxyVars, piVars, tcVars,
                            catalogVars, patchVars>>
           \/ part = "pi" /\ PiNext
              /\ UNCHANGED <<lockVars, appVars, serviceVars, proxyVars, storeVars, tcVars,
                            catalogVars, patchVars>>
           \/ part = "toolchain" /\ ToolchainNext
              /\ UNCHANGED <<lockVars, appVars, serviceVars, proxyVars, storeVars, piVars,
                            catalogVars, patchVars>>
           \/ part = "catalog" /\ CatalogNext
              /\ UNCHANGED <<lockVars, appVars, serviceVars, proxyVars, storeVars, piVars, tcVars,
                            patchVars>>
           \/ part = "patch" /\ PatchNext
              /\ UNCHANGED <<lockVars, appVars, serviceVars, proxyVars, storeVars, piVars, tcVars,
                            catalogVars>>
Spec == Init /\ [][Next]_<<part, components>>
=============================================================================
