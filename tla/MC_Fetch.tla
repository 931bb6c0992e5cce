------------------------------ MODULE MC_Fetch ------------------------------
(* Many links to one plain page, and one link to many pages.                 *)
EXTENDS Fetch

MCEntries == {<<"wsj", "com">>, <<"spiegel", "de">>, <<"pro", "rbc", "ru">>, <<"telegraph", "co", "uk">>}

MCLabels == {"wsj", "com", "spiegel", "de", "pro", "m", "rbc", "ru", "telegraph", "co", "uk", "www"}
MCSegments == {"/", ";", "a", "b"}
MCQueries == {"", "id"}

Hosts == {<<"spiegel", "de">>, <<"www", "spiegel", "de">>, <<"www", "www", "spiegel", "de">>,
          <<"m", "spiegel", "de">>, <<"pro", "rbc", "ru">>, <<"rbc", "ru">>,
          <<"telegraph", "co", "uk">>, <<"www", "co", "uk">>, <<"www", "de">>, <<"de">>,
          <<"www", "www", "de">>, <<"www", "www", "www", "de">>}

Paths == {<<>>, <<"/">>, <<"/", "a">>, <<"/", "a", "/">>, <<"/", "a", ";">>,
          <<"/", "a", ";", "/">>, <<"/", "a", "/", "b">>}

Link(host, path, query, odd) ==
    [host |-> host, path |-> path, query |-> query, refused |-> odd]

Main == Link(<<"www", "wsj", "com">>, <<"/", "a">>, "", FALSE)

MCLinks ==
    {Link(h, p, "", FALSE) : h \in Hosts, p \in {<<"/">>, <<"/", "a">>}}
    \cup {Link(<<"spiegel", "de">>, p, q, FALSE) : p \in Paths, q \in {"", "id"}}
    \cup {Main, Link(<<"spiegel", "de">>, <<"/">>, "", TRUE)}

MCPromos == {"abo", "gratis", "digital"}

\* Every text of up to n fragments.
TextsUpTo(n) == UNION {[1..k -> {"body", "more", "junk", "space", "abo"}] : k \in 0..n}

Short == {<<>>, <<"body", "body">>, <<"body", "more", "body">>, <<"abo", "body", "gratis">>}

Page(readability, scripts, article) ==
    [readability |-> readability, scripts |-> scripts, article |-> article]

Plain == Page(<<"body", "body", "body">>, <<>>, None)

ManyPages ==
    {Page(t, <<>>, None) : t \in TextsUpTo(2)}
    \cup {Page(r, s, a) : r \in Short \cup {None}, a \in {None, <<"body", "body", "body">>},
             s \in {<<>>, <<<<<<>>, <<"body", "more">>>>>>, <<<<<<"body">>>>, <<<<"more", "space">>>>>>}}
    \cup {Page(None, <<>>, t) : t \in {<<"abo", "gratis", "digital">>, <<"body", "more", "more">>,
                                     <<"body", "more", "body", "more">>,
                                     <<"body", "junk", "body", "body">>}}
    \cup {Page(None, <<<<<<"space", "space">>>>>>, None)}

MCServed(l) == IF l = Main THEN ManyPages ELSE {Plain}
=============================================================================
