------------------------------- MODULE Sampling -------------------------------
(***************************************************************************)
(* How the evaluation draws its samples (run_eval.py, run_pr_eval.py,      *)
(* scripts/build_pr_eval.py).  Items are [kind, pair, language, repo,      *)
(* first]; the kinds are "vuln", its "fix", and "other" (ordinary code, a  *)
(* benign change).  A seeded shuffle is an order like any other: the items *)
(* come in every order, so none is drawn here.                             *)
(***************************************************************************)
EXTENDS Integers, Sequences, FiniteSets, SequencesExt, Functions

PairKinds == {"vuln", "fix"}
CountIn(items, S, kind) == Cardinality({i \in S : items[i].kind = kind})
Total(counts) == FoldFunction(+, 0, counts)

\* pair_group_keys: with ids that are reused, the n-th vulnerable item goes with the n-th fix.
GroupKey(items, i) ==
    IF items[i].kind \notin PairKinds THEN <<0, i>>   \* on its own
    ELSE <<items[i].pair, Cardinality({j \in 1..i : items[j].pair = items[i].pair
                                                     /\ items[j].kind = items[i].kind})>>
\* The groups of the items of some kinds, in order of their first item.
Groups(items, kinds) ==
    LET pool == {i \in DOMAIN items : items[i].kind \in kinds}
        groups == {{j \in pool : GroupKey(items, j) = GroupKey(items, i)} : i \in pool}
    IN  SetToSortSeq(groups, LAMBDA G, H : Min(G) < Min(H))
Complete(items, G) == \A kind \in PairKinds : CountIn(items, G, kind) > 0

\* sample_items: groups as long as they fit and keep the labels balanced.
Balanced(items, S) ==
    LET vuln == CountIn(items, S, "vuln") IN vuln - (Cardinality(S) - vuln) \in -1..1
SampleItems(items, n) ==
    IF n >= Len(items) THEN DOMAIN items
    ELSE FoldLeft(LAMBDA S, G : IF Cardinality(S \cup G) <= n /\ Balanced(items, S \cup G)
                                THEN S \cup G ELSE S,
                  {}, Groups(items, PairKinds \cup {"other"}))

\* sample_items_by_kind: complete pairs first, a group when every kind keeps its quota.
DrawOrder(items, kinds) ==
    SelectSeq(Groups(items, kinds), LAMBDA G : Complete(items, G))
    \o SelectSeq(Groups(items, kinds), LAMBDA G : ~Complete(items, G))
SampleItemsByKind(items, quotas) ==
    FoldLeft(LAMBDA S, G : IF \A kind \in DOMAIN quotas : CountIn(items, S \cup G, kind) <= quotas[kind]
                           THEN S \cup G ELSE S,
             {}, DrawOrder(items, DOMAIN quotas))

\* sample_by_kind: of the pairs in order the first that have the kind; then benign items.
FirstWith(items, kind, n) ==
    LET order == SetToSortSeq({i \in DOMAIN items : items[i].kind = kind}, LAMBDA i, j :
            LET since(k) == Min({m \in DOMAIN items : items[m].kind \in PairKinds
                                                       /\ items[m].pair = items[k].pair} \cup {k})
            IN  since(i) < since(j) \/ (since(i) = since(j) /\ i > j))
        ofPair == SelectSeq(order, LAMBDA i : kind = "other" \/ ~\E j \in DOMAIN items : j > i
                                /\ items[j].kind = kind /\ items[j].pair = items[i].pair)
    IN  ToSet(SubSeq(ofPair, 1, Min({n, Len(ofPair)})))
SampleByKind(items, quotas) == UNION {FirstWith(items, kind, quotas[kind]) : kind \in DOMAIN quotas}

------------------------------------------------------------------------------
\* _quotas and _scaled_quotas: shares in proportion, the remainder to the largest fractions.
Shares(n, weights) ==
    LET total == Total(weights)
        floor(k) == (n * weights[k]) \div total
        order == SetToSortSeq(DOMAIN weights, LAMBDA k, l :
            LET rest(j) == (n * weights[j]) % total
            IN  rest(k) > rest(l) \/ (rest(k) = rest(l) /\ k < l))
        more == n - FoldSet(LAMBDA k, sum : sum + floor(k), 0, DOMAIN weights)
    IN  IF total = 0 THEN [k \in DOMAIN weights |-> 0]
        ELSE [k \in DOMAIN weights |-> floor(k) + IF \E p \in 1..more : order[p] = k THEN 1 ELSE 0]
Quotas(target, counts) == Shares(Min({target, Total(counts)}), counts)

\* How often the chosen items come from a repository.
FromRepo(pool, chosen, repo) == Cardinality({i \in chosen : pool[i].repo = repo})
OfLanguage(pool, l) == {i \in DOMAIN pool : pool[i].language = l}
Languages(pool) == {pool[i].language : i \in DOMAIN pool}
Available(pool) == [l \in Languages(pool) |-> Cardinality(OfLanguage(pool, l))]

\* Mutant: a repository gives all it may before the next one.
RoundRobinGreedy(pool, language, limit, n, cap, chosen) ==
    FoldLeft(LAMBDA S, i : IF /\ i \notin S /\ Cardinality(S \ chosen) < limit /\ Cardinality(S) < n
                              /\ FromRepo(pool, S, pool[i].repo) < cap
                           THEN S \cup {i} ELSE S,
             chosen, SetToSortSeq(OfLanguage(pool, language), <))
\* _round_robin: in round r only from repositories that have given at most r items.
RoundRobin(pool, language, limit, n, cap, chosen) ==
    LET mine == SetToSortSeq(OfLanguage(pool, language), <)
        repos == FoldLeft(LAMBDA seen, i : IF Contains(seen, pool[i].repo) THEN seen
                                           ELSE Append(seen, pool[i].repo), <<>>, mine)
        turns == FlattenSeq([r \in 1..cap |-> [k \in DOMAIN repos |-> <<r - 1, repos[k]>>]])
        give(S, turn) ==
            LET left == {i \in ToSet(mine) \ S : pool[i].repo = turn[2]} IN
            IF \/ Cardinality(S \ chosen) >= limit \/ Cardinality(S) >= n
               \/ FromRepo(pool, S, turn[2]) > turn[1] \/ left = {}
            THEN S ELSE S \cup {Min(left)}
    IN  FoldLeft(give, chosen, turns)

\* sample_real_commits: each language its share, then what is missing from the largest pools;
\* the cap per repository is raised until the pool gives enough.
Mixed(pool, mix) == LET m == [l \in Languages(pool) |-> IF l \in DOMAIN mix THEN mix[l] ELSE 0]
                    IN  IF Total(m) = 0 THEN Available(pool) ELSE m
DrawCommits(pool, n, mix, cap) ==
    LET want == Shares(n, Mixed(pool, mix))
        shares == FoldLeft(LAMBDA S, l : RoundRobin(pool, l, want[l], n, cap, S),
                           {}, SetToSortSeq(Languages(pool), <))
        bySize == SetToSortSeq(Languages(pool), LAMBDA k, l : LET a == Available(pool)
                                  IN  a[k] > a[l] \/ (a[k] = a[l] /\ k < l))
    IN  FoldLeft(LAMBDA S, l : RoundRobin(pool, l, n - Cardinality(S), n, cap, S), shares, bySize)
RealCommits(pool, target, mix, perRepo) ==
    LET n == Min({target, Len(pool)})
        draws == {[cap |-> c, chosen |-> DrawCommits(pool, n, mix, c)] : c \in perRepo..(perRepo + Len(pool))}
        enough == {d \in draws : Cardinality(d.chosen) >= n \/ d.cap >= Len(pool)}
    IN  CHOOSE d \in enough : \A e \in enough : d.cap <= e.cap

\* The benign part of sample_dev: of each language the bystanders of evaluated commits first.
TakeFrom(pool, language, limit, n, perRepo, chosen) ==
    LET order == SetToSortSeq(OfLanguage(pool, language), LAMBDA i, j :
            (pool[i].first /\ ~pool[j].first) \/ (pool[i].first = pool[j].first /\ i < j))
    IN  FoldLeft(LAMBDA S, i :
            IF \/ i \in S \/ Cardinality(S \ chosen) >= limit \/ Cardinality(S) >= n
               \/ FromRepo(pool, S, pool[i].repo) >= perRepo
            THEN S ELSE S \cup {i}, chosen, order)
SampleBenign(pool, n, mix, perRepo) ==
    LET languages == SetToSortSeq(Languages(pool), <)
        want == IF Total(mix) = 0 THEN Quotas(n, Available(pool))
                ELSE Quotas(n, [l \in Languages(pool) |-> IF l \in DOMAIN mix THEN mix[l] ELSE 0])
        shares == FoldLeft(LAMBDA S, l : TakeFrom(pool, l, want[l], n, perRepo, S), {}, languages)
    IN  FoldLeft(LAMBDA S, l : TakeFrom(pool, l, n, n, perRepo, S), shares, languages)

------------------------------------------------------------------------------
\* The samples by kind: no pair is split, no quota passed, and as many pairs as there may be;
\* of the harness's own sample, exactly what the quotas and the data set allow.
SamplesHold(items, quotas) ==
    LET kinds == DOMAIN quotas
        groups == ToSet(Groups(items, kinds))
        pairs == {G \in groups : Complete(items, G)}
        byKind == SampleItemsByKind(items, quotas)
        ofPairs(kind) == Cardinality({items[i].pair : i \in {j \in DOMAIN items : items[j].kind = kind}})
    IN  /\ \A G \in groups : G \subseteq byKind \/ G \cap byKind = {}
        /\ \A kind \in kinds : CountIn(items, byKind, kind) <= quotas[kind]
        /\ PairKinds \subseteq kinds =>
              Cardinality({G \in pairs : G \subseteq byKind})
                 = Min({quotas["vuln"], quotas["fix"], Cardinality(pairs)})
        /\ \A kind \in kinds : CountIn(items, SampleByKind(items, quotas), kind)
              = Min({quotas[kind], IF kind = "other" THEN CountIn(items, DOMAIN items, kind) ELSE ofPairs(kind)})
        /\ \A n \in 1..(Len(items) - 1) : LET S == SampleItems(items, n) IN
              /\ Cardinality(S) <= n /\ Balanced(items, S)
              /\ \A G \in ToSet(Groups(items, PairKinds \cup {"other"})) : G \subseteq S \/ G \cap S = {}

\* The samples of commits: as many as the caps allow, with the least cap that gives enough; of a
\* language, no repository gives a second item while another has one left to give; and of the
\* development sample no other item while a bystander could be had.
CommitsSpread(pool, n, mix, perRepo) ==
    LET repos == {pool[i].repo : i \in DOMAIN pool}
        most(cap) == FoldSet(LAMBDA r, sum : sum + Min({cap, FromRepo(pool, DOMAIN pool, r)}), 0, repos)
        from(S, r) == FromRepo(pool, S, r)
    IN  /\ \A real \in {RealCommits(pool, n, mix, perRepo)} :
              /\ Cardinality(real.chosen) = Min({n, Len(pool)})
              /\ \A r \in repos : from(real.chosen, r) <= real.cap
              /\ real.cap > perRepo => most(real.cap - 1) < Min({n, Len(pool)})
              /\ \A i \in real.chosen, j \in DOMAIN pool \ real.chosen :
                    Cardinality(Languages(pool)) = 1
                    => from(real.chosen, pool[i].repo) <= from(real.chosen, pool[j].repo) + 1
        /\ \A dev \in {SampleBenign(pool, n, mix, perRepo)} :
              /\ Cardinality(dev) = Min({n, most(perRepo)})
              /\ \A r \in repos : from(dev, r) <= perRepo
              /\ \A i \in dev, j \in DOMAIN pool \ dev :
                    pool[i].language = pool[j].language /\ pool[j].first /\ ~pool[i].first
                    => from(dev, pool[j].repo) = perRepo
        /\ \A q \in {Quotas(n, Available(pool))} :
              Total(q) = Min({n, Len(pool)}) /\ \A l \in DOMAIN q : q[l] <= Available(pool)[l]
==============================================================================
