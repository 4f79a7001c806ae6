----------------------------- MODULE PromptCache -----------------------------
(***************************************************************************)
(* The data plane's prompt cache accounting (proxy/cache_tracker.go and    *)
(* its use in handleClaudeStream and handleClaudeNonStream).  Nothing is   *)
(* cached here: per upstream account the tracker remembers which prompt    *)
(* prefixes were sent, and tells and bills a later request that shares one *)
(* the cheaper cached tokens.                                              *)
(*                                                                         *)
(* A prefix is the sequence of its blocks, which the code hashes.  A block *)
(* is its canonical content; tokens and minutes are small numbers.         *)
(***************************************************************************)
EXTENDS Sums, Sequences, FiniteSets, SequencesExt, FiniteSetsExt

CONSTANTS CacheAccounts, CacheRequests,
          Prompts,       \* what a request may ask; `min' is the least a cached
                         \* prefix must have for its model
          CacheAttempts, \* maxAccountRetryAttempts
          Pauses,        \* how many minutes may pass at once
          MaxMinute      \* bound: the clock

\* A block of a prompt, before it is put in its canonical form.
PromptBlocksIn ==
    [of : STRING, tokens : Nat, header : BOOLEAN,
     control : [type : {"none", "ephemeral"}, form : {"none", "text", "number"}, minutes : Int]]

ASSUME PromptCacheAssumption ==
    /\ {CacheAttempts, MaxMinute} \subseteq Nat
    /\ Pauses \subseteq Nat \ {0}
    /\ Prompts \subseteq
          [prelude : STRING, min : Nat, tools : Seq(PromptBlocksIn), system : Seq(PromptBlocksIn),
           messages : Seq([role : STRING, blocks : Seq(PromptBlocksIn)]), estimate : Nat]

VARIABLES entries,  \* entriesByAccount: [account -> [prefix -> expiry and ttl]]
          asking,   \* the requests
          minute,
          uses      \* history: of every prefix stored or found, when and where

cacheVars == <<entries, asking, minute, uses>>

NoUsage == [creation |-> 0, read |-> 0, short |-> 0, long |-> 0]

\* Some requests may be over, and accounts whose tokens could not be refreshed
\* be excluded, when the observation starts.
PromptCacheInit ==
    /\ entries = [a \in CacheAccounts |-> [p \in {} |-> 0]]
    /\ \E prompt \in [CacheRequests -> Prompts], excluded \in SUBSET CacheAccounts,
          coming \in SUBSET CacheRequests :
          asking = [r \in CacheRequests |->
              [at |-> IF r \in coming THEN "pick" ELSE "failed", prompt |-> prompt[r],
               tried |-> excluded, account |-> "none", usage |-> NoUsage, since |-> 0]]
    /\ minute = 0
    /\ uses = {}

(***************************************************************************)
(* The profile of a request.                                               *)
(***************************************************************************)
\* extractPromptCacheTTL and normalizePromptCacheTTL: a lifetime that does not
\* parse is the default of five minutes; anything above is an hour, anything
\* not positive is no breakpoint.  A number that is not positive does not parse.
BlockTTL(block) ==
    LET c   == block.control
        ttl == IF c.form = "text" \/ (c.form = "number" /\ c.minutes > 0) THEN c.minutes ELSE 5
    IN  CASE c.type # "ephemeral" -> 0
          [] c.type = "ephemeral" /\ ttl <= 0 -> 0
          [] OTHER -> IF ttl > 5 THEN 60 ELSE 5

\* The content of a block, without its place and without its cache_control.
Canonical(kind, block) == [kind |-> kind, of |-> block.of]

CacheBlock(kind, block, last) ==
    [content |-> Canonical(kind, block), tokens |-> block.tokens, ttl |-> BlockTTL(block),
     ends |-> last]

\* A billing header is left out of the prompt.
PromptBlocks(kind, blocks) ==
    FlattenSeq([i \in DOMAIN blocks |->
        IF blocks[i].header THEN <<>>
        ELSE <<CacheBlock(kind, blocks[i], kind \in {"user", "assistant"} /\ i = Len(blocks))>>])

\* flattenClaudeCacheBlocks: the model and tool choice, the tools, the system
\* blocks, and the messages in their order.
Blocks(prompt) ==
    LET plain == [type |-> "none", form |-> "none", minutes |-> 0]
        prelude == [of |-> prompt.prelude, tokens |-> 0, header |-> FALSE, control |-> plain]
    IN  <<CacheBlock("prelude", prelude, FALSE)>>
        \o [i \in DOMAIN prompt.tools |-> CacheBlock("tool", prompt.tools[i], FALSE)]
        \o PromptBlocks("system", prompt.system)
        \o FlattenSeq([i \in DOMAIN prompt.messages |->
              PromptBlocks(prompt.messages[i].role, prompt.messages[i].blocks)])

\* Mutation: Each block is hashed on its own.
FingerprintOfBlock(blocks, i) == <<blocks[i].content>>

\* hasher.Sum at block i: everything up to it.
Fingerprint(blocks, i) == [j \in 1..i |-> blocks[j].content]

\* The tokens of the first i blocks.
TokensTo(blocks, i) == SumUpTo([j \in DOMAIN blocks |-> blocks[j].tokens], i)

\* A block with a lifetime of its own is a breakpoint, and after the first of
\* them so is the end of every message, with the last lifetime; 0 is none.
BreakpointTTL(blocks, i) ==
    LET explicit == {j \in 1..i : blocks[j].ttl > 0}
    IN  IF explicit = {} \/ (blocks[i].ttl = 0 /\ ~blocks[i].ends) THEN 0
        ELSE blocks[Max(explicit)].ttl

\* BuildClaudeProfile.
Profile(prompt) ==
    LET blocks == Blocks(prompt)
        point(i) == [prefix |-> Fingerprint(blocks, i), tokens |-> TokensTo(blocks, i),
                     ttl |-> BreakpointTTL(blocks, i)]
    IN  [points |-> FlattenSeq([i \in DOMAIN blocks |->
                        IF BreakpointTTL(blocks, i) = 0 THEN <<>> ELSE <<point(i)>>]),
         total |-> Max({prompt.estimate, TokensTo(blocks, Len(blocks))}), min |-> prompt.min]

(***************************************************************************)
(* The tracker.                                                            *)
(***************************************************************************)
\* pruneExpiredLocked, of all accounts at every call.
Pruned == [a \in CacheAccounts |->
              [p \in {q \in DOMAIN entries[a] : entries[a][q].expires > minute} |-> entries[a][p]]]

Cacheable(profile) == {i \in DOMAIN profile.points : profile.points[i].tokens >= profile.min}

\* computePromptCacheTTLBreakdown: the tokens past the matched ones, by the
\* lifetime of the breakpoint they lead to.
TokensUnder(profile, matched, long) ==
    LET upTo(i) == Min({profile.points[i].tokens, profile.total})
        step(acc, i) ==
            IF upTo(i) <= acc.previous THEN acc
            ELSE [previous |-> upTo(i),
                  sum |-> acc.sum + IF (profile.points[i].ttl >= 60) = long
                                    THEN upTo(i) - acc.previous ELSE 0]
    IN  FoldLeftDomain(step, [previous |-> matched, sum |-> 0], profile.points).sum

Usage(profile, creation, read) ==
    [creation |-> creation, read |-> read,
     short |-> TokensUnder(profile, read, FALSE), long |-> TokensUnder(profile, read, TRUE)]

\* Compute: the longest remembered prefix, capped at 85% of the prompt.
Matched(profile, known) == {i \in Cacheable(profile) : profile.points[i].prefix \in DOMAIN known}

UsageOf(profile, known) ==
    LET last  == Min({Last(profile.points).tokens, profile.total})
        cap   == Min({last, (profile.total * 85) \div 100})
        hits  == Matched(profile, known)
        read  == IF hits = {} THEN 0
                 ELSE Min({profile.points[Max(hits)].tokens, profile.total, cap})
    IN  CASE profile.points = <<>> -> NoUsage
          [] profile.points # <<>> /\ DOMAIN known = {} ->
                Usage(profile, IF last < profile.min THEN 0 ELSE last, 0)
          [] OTHER -> Usage(profile, Max({cap - read, 0}), read)

\* The prefix that was found is kept for another lifetime.
Refreshed(profile, known) ==
    LET hits == Matched(profile, known)
    IN  IF hits = {} THEN known
        ELSE [known EXCEPT ![profile.points[Max(hits)].prefix] =
                [expires |-> minute + @.ttl, ttl |-> @.ttl]]

\* Update: every breakpoint that is long enough.
Remembered(profile, known) ==
    LET prefixes == {profile.points[i].prefix : i \in Cacheable(profile)}
        ttl(p) == LET i == Max({k \in Cacheable(profile) : profile.points[k].prefix = p})
                  IN  profile.points[i].ttl
    IN  [p \in DOMAIN known \cup prefixes |->
            IF p \in prefixes THEN [expires |-> minute + ttl(p), ttl |-> ttl(p)] ELSE known[p]]

(***************************************************************************)
(* The requests.                                                           *)
(***************************************************************************)
Profiled(r) == Profile(asking[r].prompt)

Attempts(r) == Cardinality(asking[r].tried)

\* Per account attempt, before the upstream is asked.
CacheComputed(r) ==
    /\ asking[r].at = "pick" /\ Attempts(r) < CacheAttempts
    /\ \E a \in CacheAccounts \ asking[r].tried :
          /\ asking' = [asking EXCEPT ![r].at = "call", ![r].account = a, ![r].since = minute,
                                      ![r].usage = UsageOf(Profiled(r), Pruned[a])]
          /\ entries' = IF Profiled(r).points = <<>> THEN entries
                        ELSE [Pruned EXCEPT ![a] = Refreshed(Profiled(r), @)]
          /\ uses' = IF Matched(Profiled(r), Pruned[a]) # {}
                     THEN uses \cup {[account |-> a, request |-> r, at |-> minute, stored |-> FALSE]}
                     ELSE uses
    /\ UNCHANGED minute

\* The account's token cannot be refreshed, or the upstream refuses before it
\* answered: the account is excluded.
CacheAccountFails(r) ==
    /\ \/ /\ asking[r].at = "call"
          /\ asking' = [asking EXCEPT ![r].at = "pick", ![r].tried = @ \cup {asking[r].account}]
       \/ /\ asking[r].at = "pick" /\ Attempts(r) < CacheAttempts
          /\ \E a \in CacheAccounts \ asking[r].tried :
                asking' = [asking EXCEPT ![r].tried = @ \cup {a}]
    /\ UNCHANGED <<entries, minute, uses>>

\* No account is left, or the stream broke after it began.
CacheRequestFails(r) ==
    /\ asking[r].at \in {"pick", "call"}
    /\ asking' = [asking EXCEPT ![r].at = "failed"]
    /\ UNCHANGED <<entries, minute, uses>>

\* The answer is complete and has been billed with the split computed before
\* it; only now is the prompt remembered.
CacheUpdated(r) ==
    /\ asking[r].at = "call"
    /\ entries' = IF Profiled(r).points = <<>> THEN entries
                  ELSE [Pruned EXCEPT ![asking[r].account] = Remembered(Profiled(r), @)]
    /\ uses' = uses \cup {[account |-> asking[r].account, request |-> r, at |-> minute, stored |-> TRUE]}
    /\ asking' = [asking EXCEPT ![r].at = "done"]
    /\ UNCHANGED minute

MinutesPass ==
    /\ \E pause \in Pauses : minute + pause <= MaxMinute /\ minute' = minute + pause
    /\ UNCHANGED <<entries, asking, uses>>

PromptCacheNext ==
    \/ MinutesPass
    \/ \E r \in CacheRequests :
          \/ CacheComputed(r) \/ CacheAccountFails(r) \/ CacheRequestFails(r)
          \/ CacheUpdated(r)

PromptCacheSpec == PromptCacheInit /\ [][PromptCacheNext]_cacheVars

(***************************************************************************)
(* What must hold.                                                         *)
(***************************************************************************)
\* The values the variables take.
PromptCacheTypeOK ==
    /\ DOMAIN entries = CacheAccounts
    /\ \A a \in CacheAccounts : \A p \in DOMAIN entries[a] : entries[a][p].ttl \in {5, 60}
    /\ \A r \in CacheRequests : asking[r].at \in {"pick", "call", "done", "failed"}
    /\ minute \in 0..MaxMinute

\* How many tokens of a prompt p lie in the blocks it shares with another one,
\* from the front.
SharedTokens(p, q) ==
    LET a == Blocks(p)  b == Blocks(q)
        n == Max({i \in 0..Min({Len(a), Len(b)}) :
                    \A j \in 1..i : a[j].content = b[j].content})
    IN  TokensTo(a, n)

\* A customer is told, and billed, cached tokens only for a prefix that an
\* earlier request sent to the same upstream account, served there, with as
\* many tokens in common from the first block on, less than an hour after it
\* was last used there - and less than five minutes if no breakpoint of any
\* request on that account asked for an hour.  At least 15% of a prompt is
\* never cached.
CacheReadWasStored ==
    \A r \in CacheRequests :
        LET read == asking[r].usage.read
            same == {u \in uses : /\ u.account = asking[r].account /\ u.request # r
                                  /\ u.at <= asking[r].since
                                  /\ SharedTokens(asking[r].prompt, asking[u.request].prompt) >= read}
            long == \E q \in CacheRequests : \E i \in DOMAIN Profiled(q).points :
                        Profiled(q).points[i].ttl = 60
        IN  asking[r].at \in {"call", "done"} /\ read > 0 =>
                /\ \E u \in same : u.stored
                /\ \E u \in same : asking[r].since - u.at < (IF long THEN 60 ELSE 5)
                /\ read * 100 <= Profiled(r).total * 85
=============================================================================
