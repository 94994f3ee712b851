CONSTANTS
    Processos = {w1, w2}
    Conteudos = {a, b}
    MesmoTamanho = FALSE
    MaxPendencias = 2
    MaxCorridas = 3
    MaxVersoes = 3
    MaxDisparos = 1
    MaxDescartes = 1
    MaxCancelamentos = 1
    MaxErros = 1
    MaxQuedas = 1
    Gastos <- Cenarios
SPECIFICATION SpecAtualizacoes
INVARIANT TipoAtualizacoes
INVARIANT Vinculo
 
PROPERTY Resolve
PROPERTY MudancaVista
CHECK_DEADLOCK FALSE
