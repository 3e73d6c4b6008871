-------------------------- MODULE MCPagedKvBaseline ---------------------------
EXTENDS PagedKvBaseline

\* A language model's configuration, one without a cache, and one that has both
\* attention attributes.
MCConfigurations ==
    {[use_cache |-> "on", attn_implementation |-> Missing, _attn_implementation |-> "sdpa"],
     [use_cache |-> Missing, attn_implementation |-> Missing, _attn_implementation |-> Missing],
     [use_cache |-> "on", attn_implementation |-> "eager", _attn_implementation |-> "eager"]}
=============================================================================
