\* Every object name of up to four components, with every deny and allow
\* list over the three prefixes.
CONSTANTS
    rt = rt
    pb = pb
    desc = desc
    descx = descx
    h = h
    prt = prt
    ppb = ppb
    Comps <- MCComps
    Desc = desc
    Prefixes <- MCPrefixes
    PrefixOf <- MCPrefixOf
    MaxLen = 4
    empty = empty
    sv = sv
    nosel = nosel
    n1 = n1
    n2 = n2
    v1 = v1
    v2 = v2
    noplat = noplat
    Empty = empty
    SelVals <- MCSelVals
    NoSelector = nosel
    MaxCmds = 2
    PropNames <- MCPropNames
    PropVals <- MCPropVals
    MaxProps = 2
    NoPlatform = noplat
SPECIFICATION Spec
INVARIANT FilterMatchesSpec DescriptorCheckMatchesSpec MergeMatchesSpec
