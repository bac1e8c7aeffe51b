------------------------------ MODULE MCDesktop -----------------------------
(***************************************************************************)
(* Desktop with small sets for TLC.                                        *)
(***************************************************************************)
EXTENDS Desktop, TLC

CONSTANTS
    q1, q2, b1, b2, w1, w2, t1, t2, activity, dialog,       \* the display
    home, view_, alias, unknown, orion                     \* classes of the app, a host

MCQueueOf == (b1 :> q1) @@ (b2 :> q2)
MCTagOf   == (w1 :> t1) @@ (w2 :> t2)
MCAlike   == {}
MCLooks   == {[clear |-> FALSE, view |-> TRUE, gpu |-> FALSE],
              [clear |-> TRUE, view |-> FALSE, gpu |-> TRUE]}

MCTarget == (home :> home) @@ (view_ :> view_) @@ (alias :> view_)

Filter(actions, categories, hosts, schemes, mimes) ==
    [actions |-> actions, categories |-> categories, hosts |-> hosts,
     schemes |-> schemes, mimes |-> mimes]

\* The launcher has no DEFAULT; the alias takes links of one host, and images.
MCManifest ==
    <<[name |-> home,  filters |-> {Filter({"MAIN"}, {"LAUNCHER"}, {}, {}, {})}],
      [name |-> alias, filters |-> {Filter({"VIEW"}, {"DEFAULT"}, {orion}, {"https"}, {}),
                                    Filter({"VIEW"}, {}, {}, {}, {<<"image", "*">>})}],
      [name |-> view_, filters |-> {Filter({"VIEW"}, {"DEFAULT"}, {}, {"https"}, {})}]>>

MCAdmits == (orion :> {orion})

Link(site)  == [scheme |-> "https", host |-> site, mime |-> <<>>]
Content(ty) == [scheme |-> "content", host |-> Nobody, mime |-> ty]

Intent(package, class, action, data) ==
    [package |-> package, class |-> class, action |-> action, data |-> data]

MCIntents ==
    {Intent("own", Nobody, Nobody, NoData), Intent("own", alias, Nobody, NoData),
     Intent("none", unknown, Nobody, NoData), Intent("none", Nobody, "MAIN", NoData),
     Intent("none", Nobody, "VIEW", Link(orion)), Intent("none", Nobody, "VIEW", Link(home)),
     Intent("none", Nobody, "VIEW", Content(<<"image", "png">>)),
     Intent("none", Nobody, "VIEW", Content(<<"audio", "ogg">>)),
     Intent("none", Nobody, "DIAL", Link(orion)),
     Intent("other", view_, "VIEW", Link(orion))}
=============================================================================
