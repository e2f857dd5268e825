SPECIFICATION Spec
CONSTANTS
    Lists <- MCLists
    StaticSlugs <- MCStaticSlugs
    Overrides <- MCOverrides
    VersionRank <- MCVersionRank
    SlugRank <- MCSlugRank
    Modifiers = {"mini"}
    Bodies = {"low", "ultra", "hgh"}
    AnthropicNames <- MCAnthropicNames
    DeepSeekNames <- MCDeepSeekNames
    Strategies = {"template", "effort_variants", "raw"}
    Opens = {o1, o2}
    Readers = {r1}
    MaxRestarts = 1
INVARIANTS
    RowsKeepRouting
    EffortHonoured
PROPERTIES
    RegistryCatchesUp
