------------------------------ MODULE CookieJar ------------------------------
(***************************************************************************)
(* Cookies: CookieJar, Cookie, CookieWriter and CookieHandler of           *)
(* bunjalloo/source.  The jar in memory, a file of lines for each domain,  *)
(* the list of domains cookies are accepted from, and its file.            *)
(***************************************************************************)
EXTENDS Integers, Sequences, FiniteSets, SequencesExt

CONSTANTS Servers,        \* hosts: those that cookies come from and go to
          TopLevel,       \* topLevel(): the host's domain of two parts
          Names,
          Kinds,          \* path and `secure' of cookies
          Places,         \* path and https of pages
          Under(_, _),    \* whether a page's path begins with a cookie's
          Lifetimes,      \* how long cookies live: 0 is a past date
          MaxTime, MaxValue  \* bounds: of the clock, and of values set

VARIABLES
  cookies,    \* m_cookies
  domain,     \* m_domain: whose file was read last, or NoDomain
  accepted,   \* m_acceptedDomains
  cookieFiles,  \* for each host, the lines of its file in cookies/
  allowList,  \* the file with the accepted domains
  time,
  values,     \* how many values have been set
  sent,       \* the last request and the cookies sent with it
  headers     \* the Set-Cookie headers that copies in the cache hold

jarVars == <<cookies, domain, accepted, cookieFiles, allowList, time, values, sent, headers>>

NoDomain == "no domain"
Session  == -1

ASSUME JarAssumption ==
  /\ TopLevel \in [Servers -> Servers] /\ \A s \in Servers : TopLevel[TopLevel[s]] = TopLevel[s]
  /\ NoDomain \notin Servers /\ Lifetimes \subseteq Nat /\ MaxTime \in Nat

\* A domain is a host, or a host with a dot before it.
Domains == [host : Servers, dot : BOOLEAN]
Host(s) == [host |-> s, dot |-> FALSE]

\* What a server sets: asString() and the parser are inverse to each other.
Line(name, v, d, kind, expires) ==
  [name |-> name, value |-> v, domain |-> d, path |-> kind.path,
   expires |-> expires, secure |-> kind.secure]

Unsaved(line) == [line |-> line, saved |-> FALSE]

MatchesDomain(c, d) ==
  \/ d = c.line.domain
  \/ Host(TopLevel[d.host]) = c.line.domain
  \/ c.line.domain.dot /\ TopLevel[c.line.domain.host] = TopLevel[d.host]

Expired(c, at) == c.line.expires # Session /\ at > c.line.expires

\* hasCookieForDomain: the place of the first, or 0.
HasCookieForDomain(jar, d, name) ==
  LET those == {i \in DOMAIN jar : MatchesDomain(jar[i], d) /\ jar[i].line.name = name}
  IN IF those = {} THEN 0 ELSE Min(those)

Renewed(l, line) == [l EXCEPT !.value = line.value, !.expires = line.expires]

\* Mutant: the cookie that is there keeps its mark.
AddKeepsSaved(jar, line) ==
  LET i == HasCookieForDomain(jar, line.domain, line.name)
  IN IF i = 0 THEN Append(jar, Unsaved(line))
     ELSE [jar EXCEPT ![i] = [line |-> Renewed(jar[i].line, line), saved |-> jar[i].saved]]

\* addCookieHeader(domain, path, request): an existing cookie gets the new
\* value and date, and keeps its domain and path.
AddCookieHeader(jar, line) ==
  LET i == HasCookieForDomain(jar, line.domain, line.name)
  IN IF i = 0 THEN Append(jar, Unsaved(line))
     ELSE [jar EXCEPT ![i] = Unsaved(Renewed(jar[i].line, line))]

\* The elements of a sequence that are kept, in their order.
Keep(acc, item) == IF item.kept THEN Append(acc, item.it) ELSE acc
Selected(seq, kept) ==
  FoldLeft(Keep, <<>>, [i \in DOMAIN seq |-> [it |-> seq[i], kept |-> kept[i]]])

\* CookieWriter: in the file of the cookie's domain the lines of its name make
\* way for the cookie, unless it has expired.
NeedsWriting(c) == c.line.expires # Session /\ ~c.saved

OtherLines(lines, c) == Selected(lines, [i \in DOMAIN lines |-> lines[i].name # c.line.name])
WithCookie(lines, c, at) ==
  IF Expired(c, at) THEN OtherLines(lines, c) ELSE Append(OtherLines(lines, c), c.line)

\* Mutant: cookies of the session are written too.
WriteSessions(fs, c, at) ==
  [fs EXCEPT ![c.line.domain.host] = WithCookie(@, c, at)]

Write(fs, c, at) ==
  IF NeedsWriting(c) THEN [fs EXCEPT ![c.line.domain.host] = WithCookie(@, c, at)] ELSE fs

\* saveCookiesToDisk takes none for expired, gcExpiredCookies those that are.
Save(fs, c) == Write(fs, c, 0)
WriteGone(fs, c) == Write(fs, c, time)

Written(c) == [c EXCEPT !.saved = c.saved \/ NeedsWriting(c)]

\* loadDomainCookies, if the file was not the last one read.
LoadDomain(jar, last, s) ==
  IF last = s THEN jar
  ELSE FoldLeft(AddCookieHeader, jar, cookieFiles[s])

\* Mutant: the domain above the server's is not read.
LoadServerOnly(s) == [jar |-> LoadDomain(cookies, domain, s), domain |-> s]

\* cookiesForRequest reads the server's file and then that of its top level.
LoadForRequest(s) ==
  [jar |-> LoadDomain(LoadDomain(cookies, domain, s), s, TopLevel[s]),
   domain |-> TopLevel[s]]

----------------------------------------------------------------------------
JarInit ==
  /\ cookies = <<>> /\ domain = NoDomain
  /\ accepted = {} /\ allowList = {}
  /\ cookieFiles = [s \in Servers |-> <<>>]
  /\ time = 1 /\ values = 0 /\ headers = {}
  /\ sent = [server |-> NoDomain, cookies |-> {}]

AcceptCookies(s) == TopLevel[s] \in accepted \/ s \in accepted

Sent(jar, s, page) ==
  {c.line : c \in {d \in Range(jar) :
     /\ MatchesDomain(d, Host(s)) /\ ~Expired(d, time)
     /\ Under(page.path, d.line.path) /\ (d.line.secure => page.secure)}}

\* cookiesForRequest, and gcExpiredCookies if it met an expired one: only
\* those that are not marked as saved are removed from the files.
Request(s, page) ==
  LET loaded == LoadForRequest(s)
      old    == [i \in DOMAIN loaded.jar |-> Expired(loaded.jar[i], time)]
      dead   == \E i \in DOMAIN loaded.jar : MatchesDomain(loaded.jar[i], Host(s)) /\ old[i]
  IN /\ domain' = loaded.domain
     /\ cookies' = IF dead THEN Selected(loaded.jar, [i \in DOMAIN old |-> ~old[i]]) ELSE loaded.jar
     /\ cookieFiles' = IF dead THEN FoldLeft(WriteGone, cookieFiles, Selected(loaded.jar, old))
                       ELSE cookieFiles
     /\ sent' = [server |-> s, cookies |-> Sent(loaded.jar, s, page)]
     /\ UNCHANGED <<accepted, allowList, time, values, headers>>

\* addCookieHeader(uri, request): everything that is not saved is saved.
SetCookie(s, line) ==
  LET jar == AddCookieHeader(cookies, line)
  IN IF AcceptCookies(s)
     THEN /\ cookieFiles' = FoldLeft(Save, cookieFiles, jar)
          /\ cookies' = [i \in DOMAIN jar |-> Written(jar[i])]
          /\ domain' = s
     ELSE UNCHANGED <<cookieFiles, cookies, domain>>

\* An answer sets a cookie for its server, or for the domain above it.
Answer ==
  /\ sent.server # NoDomain /\ values < MaxValue /\ values' = values + 1
  /\ \E name \in Names, kind \in Kinds,
        life \in Lifetimes \cup {Session},
        d \in {Host(sent.server), [host |-> TopLevel[sent.server], dot |-> TRUE]} :
       LET expires == IF life = Session THEN Session ELSE time + life - 1
           line == Line(name, values + 1, d, kind, expires)
       IN /\ SetCookie(sent.server, line)
          /\ headers' = headers \cup {[from |-> sent.server, line |-> line]}
  /\ UNCHANGED <<accepted, allowList, time, sent>>

\* Cache::load: the headers of a copy are handled like an answer's.
FromCache ==
  /\ \E h \in headers : SetCookie(h.from, h.line)
  /\ UNCHANGED <<accepted, allowList, time, values, sent, headers>>

SetAcceptCookies(s, accept) == IF accept THEN accepted \cup {s} ELSE accepted \ {s}

\* CookieHandler::acceptAdd, which saves the list.
AcceptAdd(s) ==
  /\ accepted' = SetAcceptCookies(s, TRUE) /\ allowList' = accepted'
  /\ UNCHANGED <<cookies, domain, cookieFiles, time, values, sent, headers>>

\* CookieHandler::removeSelected: what was set stays.
RemoveSelected(s) ==
  /\ s \in accepted /\ accepted' = SetAcceptCookies(s, FALSE)
  /\ UNCHANGED <<cookies, domain, cookieFiles, allowList, time, values, sent, headers>>

\* CookieHandler::acceptEdit.
AcceptEdit ==
  /\ allowList' = accepted
  /\ UNCHANGED <<cookies, domain, accepted, cookieFiles, time, values, sent, headers>>

Pressed == (\E s \in Servers : AcceptAdd(s) \/ RemoveSelected(s)) \/ AcceptEdit

\* A new session: loadAcceptList.  The ids of the cache are gone.
NewSession ==
  /\ cookies' = <<>> /\ domain' = NoDomain /\ accepted' = allowList
  /\ sent' = [server |-> NoDomain, cookies |-> {}]
  /\ headers' = {}
  /\ UNCHANGED <<cookieFiles, allowList, time, values>>

ClockTicks == time < MaxTime /\ time' = time + 1
        /\ UNCHANGED <<cookies, domain, accepted, cookieFiles, allowList, values, sent, headers>>

JarNext ==
  \/ \E s \in Servers, page \in Places : Request(s, page)
  \/ Answer \/ FromCache \/ Pressed \/ NewSession \/ ClockTicks

JarSpec == JarInit /\ [][JarNext]_jarVars

----------------------------------------------------------------------------
JarTypeInvariant ==
  /\ domain \in Servers \cup {NoDomain}
  /\ accepted \subseteq Servers /\ allowList \subseteq Servers
  /\ \A i \in DOMAIN cookies :
       cookies[i].line.domain \in Domains /\ cookies[i].line.value \in 1..values
  /\ \A s \in Servers : \A i \in DOMAIN cookieFiles[s] :
       cookieFiles[s][i].domain.host = s /\ cookieFiles[s][i].expires # Session

\* A name is in the jar and in a file once for each domain: what is replaced,
\* reloaded and written again never leaves an old value beside the new one.
NoDuplicates ==
  /\ \A i, j \in DOMAIN cookies :
       cookies[i].line.name = cookies[j].line.name
         /\ cookies[i].line.domain = cookies[j].line.domain => i = j
  /\ \A s \in Servers : \A i, j \in DOMAIN cookieFiles[s] :
       cookieFiles[s][i].name = cookieFiles[s][j].name => i = j

\* A cookie that is marked as saved, and not of this session only, is in its
\* file with the value it has in memory.
SavedMeansOnDisk ==
  \A i \in DOMAIN cookies :
    LET c == cookies[i]
    IN c.saved /\ c.line.expires # Session => Contains(cookieFiles[c.line.domain.host], c.line)

\* The jar and its files agree: one value for each name and domain, and the saved
\* one in the file (CookieJar::addCookieHeader, CookieWriter).
JarIsOnDisk == NoDuplicates /\ SavedMeansOnDisk

Known == Range(cookies) \cup {Unsaved(l) : l \in UNION {Range(cookieFiles[s]) : s \in Servers}}

\* What an earlier session, or this one, has saved for a server goes with each
\* request its path and `secure' allow, until it expires: unless the name is
\* also that of a cookie of another domain (then one takes the other's place), or the
\* file is not read because it is m_domain's, and nothing of that name is in the jar
\* (the cookie of another domain that took its place may have expired since).
SavedCookiesSent ==
  [][\A s \in Servers, page \in Places : Request(s, page) =>
       \A t \in {s, TopLevel[s]} : \A l \in Range(cookieFiles[t]) :
         /\ MatchesDomain(Unsaved(l), Host(s)) /\ ~Expired(Unsaved(l), time)
         /\ Under(page.path, l.path) /\ (l.secure => page.secure)
         /\ \A c \in Known : c.line.name = l.name =>
              c.line.domain = l.domain /\ c.line.path = l.path /\ c.line.secure = l.secure
         /\ (t = s /\ domain = s => \E c \in Range(cookies) : c.line.name = l.name)
         => \E c \in sent'.cookies : c.name = l.name]_jarVars
=============================================================================
