------------------------------- MODULE MCDesk -------------------------------
(* An instance of Desk for TLC. *)
EXTENDS Desk, TLC

CONSTANTS bank, notify, alice, statement, catchall, noshape, console, cli,
          nomsg, nocard, letter

\* notify is a subdomain of bank, and alice writes from it.
Hosts == alice :> notify
Parents == (bank :> {bank}) @@ (notify :> {notify, bank})

\* The bank is known, and no shape of its mail is catalogued yet.
Starts == {[l \in List |-> IF l = "greylist" THEN [keys |-> {bank}, shapes |-> {}]
                           ELSE Empty]}

Decide(a, k, s, x) == [action |-> a, key |-> k, shape |-> s, disposition |-> x]
Plain(a, k) == Decide(a, k, noshape, "allowed")

\* Listing the sender, moving the bank, cataloguing its mail, a batch for two
\* lists, a document that is refused, and a discard.
Documents == {
    <<Plain("whitelist", alice)>>,
    <<Plain("blacklist", bank)>>,
    <<Decide("greylist", bank, statement, "allowed")>>,
    <<Plain("whitelist", bank), Plain("trust_all", notify)>>,
    <<Plain("malformed", alice)>>,
    <<Plain("discard", alice)>> }

Fact == [marker |-> FALSE, injection |-> FALSE, phishing |-> FALSE,
         visual |-> FALSE, attachments |-> FALSE, signed |-> FALSE,
         foreign |-> FALSE, shortener |-> FALSE, hidden |-> FALSE, soft |-> {},
         sender |-> alice, shapes |-> {statement}, excerpt |-> {}]

\* One that climbs to level 4 on its signature, and one with a suspicious
\* subject on which levels 2 and 3 disagree for ever.
Statement == [Fact EXCEPT !.signed = TRUE, !.soft = {"spf"}]
Lure == [Fact EXCEPT !.phishing = TRUE, !.excerpt = {statement}]
Mails == {Statement, Lure}

\* The two have one Message-ID.
Jobs == [m \in Mails |-> letter]

\* One of the two signature files loads.
Feeds == {{"phishing"}}
=============================================================================
